---- MODULE Spec2Model ----
(***************************************************************************)
(* inversify-koa-utils: the route-registration and request-dispatch engine *)
(* of InversifyKoaServer (src/src/server.ts) together with the decorators  *)
(* that record the metadata it reads (decorators.ts, utils.ts).            *)
(*                                                                         *)
(* Strings that the code treats as text (paths) are sequences of           *)
(* one-character strings; names (method keys, roles, middleware) are       *)
(* plain strings.                                                          *)
(***************************************************************************)
EXTENDS Integers, Sequences, FiniteSets, TLC

\* ------------------------------------------------------------------ bounds
\* longest list of roles handed to @authorizeAll(...) / @authorize(...)
MaxRoles == 2
\* most decorated methods of a controller class
MaxMethods == 2
\* longest list of middleware refs handed to resolveMiddleware on its own
MaxRefs == 2
\* most parameters of a controller method
MaxParams == 2
\* characters of a segment given to pathJoin, and arguments of a call of it
MaxLen == 2
MaxArgs == 3

\* ------------------------------------------------------- program constants
\* ctx.throw(401) / ctx.throw(403) of the authorization handler
Unauthorized == 401
Forbidden == 403
\* status of a response whose body has been assigned
StatusOk == 200

\* ------------------------------------------------------------- value sets
None == "none"
\* a metadata entry Reflect.getOwnMetadata finds nothing for, or a value that
\* is null / undefined
Absent == [absent |-> TRUE]
Roles == {"role a", "role b"}
RoleLists == UNION {[1..n -> Roles] : n \in 0..MaxRoles}

\* the requests of the model; Served are those that arrive under Spec, which
\* serves one request at a time
Requests == {"r1", "r2"}
Served == {"r1"}

\* A Principal (interfaces.ts): isAuthenticated() resolves auth,
\* isInRole(role) resolves role \in roles, isResourceOwner(resourceId)
\* resolves resourceId \in owns.
Resources == {"res"}
Principals == [auth : BOOLEAN, roles : SUBSET Roles, owns : SUBSET Resources]
\* what an auth provider's getPrincipal may resolve to: a principal, or
\* nothing (null / undefined)
ProviderResults == Principals \cup {Absent}
isAuthenticated(principal) == principal.auth
isInRole(principal, role) == role \in principal.roles
isResourceOwner(principal, resourceId) == resourceId \in principal.owns

\* ------------------------------------------------------------- values
\* JavaScript values: undefined is Absent; a string, a number, a function,
\* an object with its properties
Undefined == Absent
Str(s) == [str |-> s]
Num(n) == [num |-> n]
Fn(name) == [fn |-> name]
Obj(id, props) == [id |-> id, props |-> props]
Null == [null |-> TRUE]

\* --------------------------------------------------------------- pathJoin
\* A string is the sequence of its characters.
RECURSIVE join(_)
join(strArray) ==
    IF Len(strArray) = 0 THEN <<>>
    ELSE IF Len(strArray) = 1 THEN strArray[1]
    ELSE strArray[1] \o <<"/">> \o join(Tail(strArray))

RECURSIVE collapseSlashes_Pairs(_)
\* a plausible slip: /\/\//g, which replaces pair by pair, so that a run of
\* three slashes leaves two
collapseSlashes_Pairs(str) ==
    IF Len(str) < 2 THEN str
    ELSE IF str[1] = "/" /\ str[2] = "/"
    THEN <<"/">> \o collapseSlashes_Pairs(SubSeq(str, 3, Len(str)))
    ELSE <<str[1]>> \o collapseSlashes_Pairs(Tail(str))

\* str.replace(/\/{2,}/g, '/')
RECURSIVE collapseSlashes(_)
collapseSlashes(str) ==
    IF Len(str) < 2 THEN str
    ELSE IF str[1] = "/" /\ str[2] = "/" THEN collapseSlashes(Tail(str))
    ELSE <<str[1]>> \o collapseSlashes(Tail(str))

\* str.replace(/\/+$/, '')
RECURSIVE stripTrailingSlashes(_)
stripTrailingSlashes(str) ==
    IF Len(str) > 0 /\ str[Len(str)] = "/"
    THEN stripTrailingSlashes(SubSeq(str, 1, Len(str) - 1))
    ELSE str

normalize(strArray) ==
    IF Len(strArray) = 0 THEN <<>>
    ELSE LET str == collapseSlashes(join(strArray))
         IN IF \E i \in 1..Len(str) : str[i] # "/"
            THEN stripTrailingSlashes(str)
            ELSE str

\* typeof value === 'string'
isString(value) == "str" \in DOMAIN value

\* a plausible slip: no filter, and join takes null and undefined for the
\* empty string
pathJoin_Unfiltered(arguments) ==
    normalize([i \in 1..Len(arguments) |->
                  IF isString(arguments[i]) THEN arguments[i].str ELSE <<>>])

\* pathJoin(...args): the arguments that are strings, normalized
pathJoin(arguments) ==
    LET parts == SelectSeq(arguments, isString)
    IN normalize([i \in 1..Len(parts) |-> parts[i].str])

\* ------------------------------------------------------ metadata registry
\* @controller(path, ...middleware)
controller(path, middleware) ==
    [path |-> path, middleware |-> middleware, target |-> "TestController"]

\* @httpMethod(method, path, ...middleware) on the method named key
httpMethod(method, path, middleware, key) ==
    [path |-> path, middleware |-> middleware, method |-> method, key |-> key]

\* a plausible slip: push, which leaves the bindings of a method in the order
\* the decorators are applied in
paramsDecorator_Pushed(metadataList, methodName, index, parameterName, type) ==
    LET item == [index |-> index, parameterName |-> parameterName, type |-> type]
        parameterMetadataList ==
            IF methodName \in DOMAIN metadataList THEN metadataList[methodName]
            ELSE <<>>
    IN [k \in DOMAIN metadataList \cup {methodName} |->
           IF k = methodName THEN Append(parameterMetadataList, item)
           ELSE metadataList[k]]

\* params(type, parameterName)(target, methodName, index), lines 99-121, on
\* the metadata of the class so far (empty when it has none): the binding is
\* put at the front of the list of the method
paramsDecorator(metadataList, methodName, index, parameterName, type) ==
    LET item == [index |-> index, parameterName |-> parameterName, type |-> type]
        parameterMetadataList ==
            IF methodName \in DOMAIN metadataList THEN metadataList[methodName]
            ELSE <<>>
    IN [k \in DOMAIN metadataList \cup {methodName} |->
           IF k = methodName THEN <<item>> \o parameterMetadataList
           ELSE metadataList[k]]

\* @authorizeAll(...requiredRoles)
authorizeAll(requiredRoles) == [requiredRoles |-> requiredRoles]

\* @authorize(...requiredRoles) on the method named key: metadataList[key] =
\* metadata, on the list getMetadataList creates on first use
authorize(metadataList, requiredRoles, key) ==
    [k \in (DOMAIN metadataList) \cup {key} |->
        IF k = key THEN [requiredRoles |-> requiredRoles, key |-> key]
        ELSE metadataList[k]]

\* the decorated methods of class TestController under Spec, in declaration
\* order
TestControllerMethods ==
    << httpMethod("get", <<":", "i", "d">>, <<"m1", "m2">>, "getTest"),
       httpMethod("get", <<>>, <<>>, "getAll") >>

\* a controller class bound under TYPE.Controller, with what
\* Reflect.getOwnMetadata finds on its constructor (lines 110-133)
ClassOf(name, cm, mm, am, aam) ==
    [name |-> name, controllerMetadata |-> cm, methodMetadata |-> mm,
     authorizeMetadata |-> am, authorizeAllMetadata |-> aam]

\* the middleware lists a controller class may declare
ControllerMiddleware == {<<>>, <<"c1", "c2">>}
\* the methods of the class that may carry @authorize
Authorizable == {"getTest"}
\* what the controller method may return: a plain value, the empty string,
\* nothing, a promise that is still pending
Promise == "promise"
\* a promise the method returned, once it has settled
Settled == "settled promise"
\* the method threw; the promise it returned has been rejected
Thrown == "thrown"
Rejected == "rejected promise"
\* the errors the method may throw, or its promise be rejected with
MethodErrors == {[message |-> "error a"], [message |-> "error b"]}
Results == {"value", "", None, Promise}
\* the results if (result) takes for false
Falsy == {"", None}
\* the user middleware that call next() and return without awaiting it, by
\* name; every other one awaits or returns what next() returned
DetachedNames == {"a", "b"}
\* the controller methods that call the continuation they are given, by
\* name, and among them those that do not await it; such a method is async,
\* and the promise it returns settles with its continuation when it awaits
\* it
CallsNext == {"nextAwaited", "nextDetached"}
DetachedKeys == {"nextDetached"}
Continued == "promise of a method that called next"

VARIABLES
    controllerMetadata,    \* METADATA_KEY.controller of the class, or Absent
    methodMetadata,        \* METADATA_KEY.controllerMethod of the class: its
                           \* decorated methods in declaration order (<<>>
                           \* when no method is decorated: getMetadataList
                           \* creates the list on first use)
    named,                 \* the name each binding under TYPE.Controller
                           \* was given with whenTargetNamed, in bind order;
                           \* None for a binding that was given none
    otherControllers,      \* the classes bound under TYPE.Controller after
                           \* TestController, in bind order
    authorizeAllMetadata,  \* METADATA_KEY.authorizeAll of the class, or Absent
    authorizeMetadata,     \* METADATA_KEY.authorize: method key -> rule
    AuthProvider,          \* this._AuthProvider is set
    container,             \* this._container: what each bound middleware
                           \* ref resolves to
    middleware,            \* resolveMiddleware: its argument list
    parameterMetadata,     \* METADATA_KEY.controllerParameter of the class:
                           \* method key -> bindings of its parameters
    callCtx,               \* extractParameters: the ctx it is called with
    pathArgs,              \* pathJoin: the arguments it is called with
    declaration,           \* the methods of a class whose parameters are
                           \* decorated: of each its name and, by position,
                           \* the decorator of the parameter or Absent
    applied,               \* how many of those decorators have been applied
    returned,              \* the call of a function of the server made on
                           \* its own and the value it returned, or Absent
    configFn,              \* this._configFn: "noop" (default) or "user"
    errorConfigFn,         \* this._errorConfigFn: "noop" (default) or "user"
    buildPc,               \* position inside build()
    app,                   \* middleware of this._app, in app.use order
    routes,                \* routes registered on this._router, in order
    trace,                 \* hooks and phases build() has run, in order
    pc,                    \* per request: position of its handler chain
    target,                \* per request: index of the route it matches
    layer,                 \* per request: index into app of its handler
    pos,                   \* per request: index into the route's stack
    principal,             \* per request: ctx.state.principal
    resolved,              \* per request: calls of _getCurrentPrincipal
    gate,                  \* per request: locals of the running gate
    started,               \* per request: handlers that have started
    continued,             \* per request: handlers that have called next()
    status,                \* per request: response status
    body,                  \* per request: ctx.body
    headerSent,            \* per request: ctx.headerSent
    methodResult,          \* per request: what the controller method returned
    thrown,                \* per request: the error the controller method
                           \* threw, or its promise rejected with, or Absent
    receiver,              \* per request: the class of the instance the
                           \* controller method was called on, or None
    cascade                \* per request: the handlers suspended on what
                           \* next() returned: how many of those that have
                           \* called next() may resume, how many of those
                           \* have, and the ones that resumed, in order;
                           \* the error what next() returned is rejected
                           \* with, or Absent, and the handlers that
                           \* resumed with that error thrown at them

\* what a function of the server is called with on its own, and its result
callVars == <<middleware, parameterMetadata, callCtx, pathArgs, declaration,
             applied, returned>>
classVars == <<controllerMetadata, methodMetadata, otherControllers, named,
               authorizeAllMetadata, authorizeMetadata, AuthProvider, container>>
metaVars == <<classVars, callVars>>
MethodKeys == {methodMetadata[i].key : i \in 1..Len(methodMetadata)}
\* this._container.getAll(TYPE.Controller), line 108
Controllers ==
    <<ClassOf("TestController", controllerMetadata, methodMetadata,
              authorizeMetadata, authorizeAllMetadata)>> \o otherControllers
\* every binding is named after its class: whenTargetNamed("TestController")
NamedAfterClass ==
    <<"TestController">> \o [i \in 1..Len(otherControllers) |-> otherControllers[i].name]
serverVars == <<configFn, errorConfigFn, buildPc, app, routes, trace>>
reqVars == <<pc, target, layer, pos, principal, resolved, gate, started, continued,
            status, body, headerSent, cascade, methodResult, thrown, receiver>>
vars == <<metaVars, serverVars, reqVars>>

\* ------------------------------------------------------------- handlers
\* One shape for every handler of a chain; label names it in the logs.
Handler(kind, name, requiredRoles, key) ==
    [kind |-> kind, name |-> name, requiredRoles |-> requiredRoles, key |-> key]

\* build(): the first middleware, which sets ctx.state.principal
principalMiddleware == Handler("principal", "principal", <<>>, None)
\* what the user's config / error-config function registers with app.use
serverMiddleware == Handler("mw", "s1", <<>>, None)
errorMiddleware == Handler("mw", "e1", <<>>, None)
\* this._router.routes()
routerMiddleware == Handler("router", "router", <<>>, None)

authorizationHandlerFactory(requiredRoles) ==
    Handler("auth", "auth", requiredRoles, None)

\* this._container.isBound(serviceIdentifier)
isBound(serviceIdentifier) == serviceIdentifier \in DOMAIN container

\* what stands in a handler list for a value: the wrapper around a
\* BaseMiddleware instance, the value itself when it is a function, the
\* value itself when it is any other object
WrapperOf(middlewareInstance) == Handler("wrapper", middlewareInstance.name, <<>>, None)
ItselfOf(instanceOf, name) ==
    Handler(IF instanceOf = "Function" THEN "mw" ELSE "object", name, <<>>, None)

\* a plausible slip: no instanceof test, every bound ref gets the wrapper
resolveMiddleware_AlwaysWrapped(middlewareList) ==
    [i \in 1..Len(middlewareList) |->
        LET middlewareItem == middlewareList[i]
        IN IF isBound(middlewareItem)
           THEN WrapperOf(container[middlewareItem])
           ELSE ItselfOf("Function", middlewareItem)]

\* resolveMiddleware, lines 205-224. A ref that is not bound is an inline
\* function, named by the ref.
resolveMiddleware(middlewareList) ==
    [i \in 1..Len(middlewareList) |->
        LET middlewareItem == middlewareList[i]
        IN IF isBound(middlewareItem)
           THEN LET middlewareInstance == container[middlewareItem]
                IN IF middlewareInstance.instanceOf = "BaseMiddleware"
                   THEN WrapperOf(middlewareInstance)
                   ELSE ItselfOf(middlewareInstance.instanceOf,
                                 middlewareInstance.name)
           ELSE ItselfOf("Function", middlewareItem)]

handlerFactory(controllerName, key) ==
    Handler("dispatch", controllerName, <<>>, key)

\* a plausible slip: the controller is not looked up by name, the first one
\* bound is taken
getNamed_FirstBound(controllerName) == Controllers[1].name

\* this._container.getNamed(TYPE.Controller, controllerName), line 232: the
\* class of the instance the container resolves. A binding matches the name
\* it was given, and any name when it was given none; the lookup throws when
\* no binding matches and when several do: None.
getNamed(controllerName) ==
    LET matching == {i \in 1..Len(named) : named[i] \in {controllerName, None}}
    IN IF Cardinality(matching) = 1
       THEN Controllers[CHOOSE i \in matching : TRUE].name
       ELSE None
\* the error of a lookup that throws
LookupError == [message |-> "no binding, or several, for that name"]

\* a plausible slip: the rule of some decorated method is taken, whatever
\* the method being registered
authorizationHandlers_AnyMethodRule(am, aam, key) ==
    (IF aam # Absent
     THEN <<authorizationHandlerFactory(aam.requiredRoles)>>
     ELSE <<>>)
    \o (IF DOMAIN am # {}
        THEN <<authorizationHandlerFactory(
                   am[CHOOSE k \in DOMAIN am : TRUE].requiredRoles)>>
        ELSE <<>>)

\* a plausible slip: else-if, the method rule is looked at only when the
\* class has no rule
authorizationHandlers_ElseIf(am, aam, key) ==
    IF aam # Absent
    THEN <<authorizationHandlerFactory(aam.requiredRoles)>>
    ELSE IF DOMAIN am # {} /\ key \in DOMAIN am
    THEN <<authorizationHandlerFactory(am[key].requiredRoles)>>
    ELSE <<>>

\* a plausible slip: the method rule's gate is pushed first
authorizationHandlers_MethodFirst(am, aam, key) ==
    (IF DOMAIN am # {} /\ key \in DOMAIN am
     THEN <<authorizationHandlerFactory(am[key].requiredRoles)>>
     ELSE <<>>)
    \o (IF aam # Absent
        THEN <<authorizationHandlerFactory(aam.requiredRoles)>>
        ELSE <<>>)

\* registerControllers, lines 144-155: the gates of the method named key;
\* the class-wide rule's first, then the method's own
authorizationHandlers(am, aam, key) ==
    (IF aam # Absent
     THEN <<authorizationHandlerFactory(aam.requiredRoles)>>
     ELSE <<>>)
    \o (IF DOMAIN am # {} /\ key \in DOMAIN am
        THEN <<authorizationHandlerFactory(am[key].requiredRoles)>>
        ELSE <<>>)

\* a plausible slip: the gates are spread before the method's middleware
RouteOf_GatesBeforeRouteMiddleware(cm, am, aam, metadata) ==
    [method |-> metadata.method,
     path |-> pathJoin(<<Str(cm.path), Str(metadata.path)>>),
     stack |-> resolveMiddleware(cm.middleware)
                 \o authorizationHandlers(am, aam, metadata.key)
                 \o resolveMiddleware(metadata.middleware)
                 \o <<handlerFactory(cm.target, metadata.key)>>]

\* the body of methodMetadata.forEach, lines 138-167: the route of one method
RouteOf(cm, am, aam, metadata) ==
    LET authorizationHandler == authorizationHandlers(am, aam, metadata.key)
        handler == handlerFactory(cm.target, metadata.key)
        controllerMiddleware == resolveMiddleware(cm.middleware)
        routeMiddleware == resolveMiddleware(metadata.middleware)
    IN [method |-> metadata.method,
        path |-> pathJoin(<<Str(cm.path), Str(metadata.path)>>),
        stack |-> controllerMiddleware \o routeMiddleware
                    \o authorizationHandler \o <<handler>>]

\* a plausible slip: a class is skipped only when it lacks both metadata; one
\* that has decorated methods but no @controller is registered under "/"
registerController_MethodsSuffice(cm, mm, am, aam) ==
    IF mm # <<>>
    THEN [i \in 1..Len(mm) |->
            RouteOf(IF cm # Absent THEN cm ELSE controller(<<"/">>, <<>>),
                    am, aam, mm[i])]
    ELSE <<>>

\* the body of controllers.forEach, lines 110-168: one route per method
\* metadata entry of a class that has both metadata
registerController(cm, mm, am, aam) ==
    IF cm # Absent /\ mm # <<>>
    THEN [i \in 1..Len(mm) |-> RouteOf(cm, am, aam, mm[i])]
    ELSE <<>>

RECURSIVE registerControllers_FirstClassOnly(_)
\* a plausible slip: the loop over the controllers ends after the first
registerControllers_FirstClassOnly(controllers) ==
    IF controllers = <<>> THEN <<>>
    ELSE LET c == controllers[1]
         IN registerController(c.controllerMetadata, c.methodMetadata,
                               c.authorizeMetadata, c.authorizeAllMetadata)

RECURSIVE registerControllers(_)
\* registerControllers(), lines 108-168: the routes of every controller, in
\* the order getAll returns the controllers
registerControllers(controllers) ==
    IF controllers = <<>> THEN <<>>
    ELSE LET c == controllers[1]
         IN registerController(c.controllerMetadata, c.methodMetadata,
                               c.authorizeMetadata, c.authorizeAllMetadata)
            \o registerControllers(Tail(controllers))

\* a plausible slip: the synthesized principal reports itself authenticated
getCurrentPrincipal_DefaultAuthenticated(hasProvider) ==
    IF hasProvider THEN ProviderResults
    ELSE {[auth |-> TRUE, roles |-> {}, owns |-> {}]}

\* _getCurrentPrincipal, lines 284-296: what the awaited promise may resolve to
getCurrentPrincipal(hasProvider) ==
    IF hasProvider THEN ProviderResults
    ELSE {[auth |-> FALSE, roles |-> {}, owns |-> {}]}

\* --------------------------------------------------- parameter extraction
\* what if (v) and v || w take for true
Truthy(v) == v \notin {Undefined, Str(""), Num(0)}
\* a || b
Or(a, b) == IF Truthy(a) THEN a ELSE b
\* obj[name]
Get(obj, name) ==
    IF "props" \in DOMAIN obj /\ name \in DOMAIN obj.props
    THEN obj.props[name] ELSE Undefined
\* jar.get(name) of ctx.cookies
CookieGet(jar, name) ==
    IF name \in DOMAIN jar.store THEN jar.store[name] ELSE Undefined

\* a JavaScript array: its length and the indices that are set
EmptyArray == [length |-> 0, items |-> [k \in {} |-> Undefined]]
\* arr[i] = v
Assign(arr, i, v) ==
    [length |-> IF i + 1 > arr.length THEN i + 1 ELSE arr.length,
     items |-> [k \in (DOMAIN arr.items) \cup {i} |->
                   IF k = i THEN v ELSE arr.items[k]]]
\* arr.push(v)
Push(arr, v) == Assign(arr, arr.length, v)

\* a plausible slip: undefined for every kind but the cookies
checkQueryParam_UndefinedButCookies(paramType, param, name) ==
    IF paramType = "cookies" THEN CookieGet(param, name)
    ELSE Undefined

\* a plausible slip: cookies fall through to the whole source, as the other
\* kinds do
checkQueryParam_CookiesFallThrough(paramType, param, name) ==
    IF paramType = "query" THEN Undefined
    ELSE param

\* checkQueryParam, lines 274-282
checkQueryParam(paramType, param, name) ==
    IF paramType = "query" THEN Undefined
    ELSE IF paramType = "cookies" THEN CookieGet(param, name)
    ELSE param

\* getParam, lines 268-272; paramType None is null
getParam(source, paramType, name) ==
    LET param == IF paramType = None THEN source
                 ELSE Or(Get(source, paramType), source)
    IN Or(Get(param, name), checkQueryParam(paramType, param, name))

\* extractParameters, lines 250-261: the switch on the type of a binding
argOf(ctx, next, item) ==
    CASE item.type = "RESPONSE" -> getParam(Get(ctx, "response"), None, item.parameterName)
      [] item.type = "REQUEST" -> getParam(Get(ctx, "request"), None, item.parameterName)
      [] item.type = "NEXT" -> next
      [] item.type = "CTX" -> getParam(ctx, None, item.parameterName)
      [] item.type = "PARAMS" -> getParam(ctx, "params", item.parameterName)
      [] item.type = "QUERY" -> getParam(ctx, "query", item.parameterName)
      [] item.type = "BODY" -> getParam(Get(ctx, "request"), "body", item.parameterName)
      [] item.type = "HEADERS" -> getParam(Get(ctx, "request"), "headers", item.parameterName)
      [] item.type = "COOKIES" -> getParam(ctx, "cookies", item.parameterName)
      [] OTHER -> ctx

RECURSIVE fillArgs(_, _, _, _)
\* extractParameters, lines 248-262: the loop over the bindings
fillArgs(args, ctx, next, params) ==
    IF params = <<>> THEN args
    ELSE fillArgs(Assign(args, params[1].index, argOf(ctx, next, params[1])),
                  ctx, next, Tail(params))

\* a plausible slip: the arguments are pushed one after the other, whatever
\* the index of their binding
extractParameters_Pushed(ctx, next, params) ==
    IF Len(params) = 0 THEN Push(Push(EmptyArray, ctx), next)
    ELSE LET bound == [i \in 1..Len(params) |-> argOf(ctx, next, params[i])]
         IN [length |-> Len(params) + 2,
             items |-> [k \in 0..(Len(params) + 1) |->
                           IF k < Len(params) THEN bound[k + 1]
                           ELSE IF k = Len(params) THEN ctx ELSE next]]

\* a plausible slip: the two default arguments in the other order
extractParameters_NextFirst(ctx, next, params) ==
    IF Len(params) = 0 THEN Push(Push(EmptyArray, next), ctx)
    ELSE Push(Push(fillArgs(EmptyArray, ctx, next, params), ctx), next)

\* extractParameters, lines 242-266
extractParameters(ctx, next, params) ==
    IF Len(params) = 0 THEN Push(Push(EmptyArray, ctx), next)
    ELSE Push(Push(fillArgs(EmptyArray, ctx, next, params), ctx), next)

\* ------------------------------------------------------------------ Init
NoGate == [isAuthenticated |-> FALSE, isAuthorized |-> FALSE, idx |-> 0]
NotCalled == "not called"
NoCascade == [released |-> 0, unwound |-> 0, resumed |-> <<>>,
              error |-> Absent, raised |-> <<>>]
EmptyFn == [k \in {} |-> None]

RECURSIVE AuthorizeAllOf(_, _)
\* the metadata list after @authorize has decorated the methods of keys
AuthorizeAllOf(keys, rolesOf) ==
    IF keys = {} THEN EmptyFn
    ELSE LET k == CHOOSE x \in keys : TRUE
         IN authorize(AuthorizeAllOf(keys \ {k}, rolesOf), rolesOf[k], k)

\* no function of the server is called on its own
NoCall ==
    /\ middleware = <<>>
    /\ parameterMetadata = EmptyFn
    /\ callCtx = Absent
    /\ pathArgs = <<>>
    /\ declaration = <<>>
    /\ applied = 0
    /\ returned = Absent

\* the server after construction, and no request yet
InitServer ==
    /\ configFn = "noop"
    /\ errorConfigFn = "noop"
    /\ buildPc = "idle"
    /\ app = <<>>
    /\ routes = <<>>
    /\ trace = <<>>
    /\ pc = [r \in Requests |-> "idle"]
    /\ target = [r \in Requests |-> 0]
    /\ layer = [r \in Requests |-> 0]
    /\ pos = [r \in Requests |-> 0]
    /\ principal = [r \in Requests |-> Absent]
    /\ resolved = [r \in Requests |-> 0]
    /\ gate = [r \in Requests |-> NoGate]
    /\ started = [r \in Requests |-> <<>>]
    /\ continued = [r \in Requests |-> <<>>]
    \* the status of a response nothing has been assigned to
    /\ status = [r \in Requests |-> 404]
    /\ body = [r \in Requests |-> None]
    /\ headerSent = [r \in Requests |-> FALSE]
    /\ cascade = [r \in Requests |-> NoCascade]
    /\ methodResult = [r \in Requests |-> NotCalled]
    /\ thrown = [r \in Requests |-> Absent]
    /\ receiver = [r \in Requests |-> None]

Init ==
    /\ \E mw \in ControllerMiddleware :
          controllerMetadata = controller(<<"/">>, mw)
    /\ authorizeAllMetadata \in {Absent} \cup {authorizeAll(rr) : rr \in RoleLists}
    /\ \E keys \in SUBSET Authorizable : \E rolesOf \in [keys -> RoleLists] :
          authorizeMetadata = AuthorizeAllOf(keys, rolesOf)
    /\ AuthProvider \in BOOLEAN
    /\ methodMetadata = TestControllerMethods
    /\ otherControllers = <<>>
    /\ named = NamedAfterClass
    /\ container = EmptyFn
    /\ NoCall
    /\ InitServer

\* ----------------------------------------------------- server facade
setConfig ==
    /\ buildPc = "idle"
    /\ configFn' = "user"
    /\ UNCHANGED <<metaVars, errorConfigFn, buildPc, app, routes, trace, reqVars>>

setErrorConfig ==
    /\ buildPc = "idle"
    /\ errorConfigFn' = "user"
    /\ UNCHANGED <<metaVars, configFn, buildPc, app, routes, trace, reqVars>>

\* build(), lines 79-83: app.use of the principal middleware
buildPrincipal ==
    /\ buildPc = "idle"
    /\ app' = Append(app, principalMiddleware)
    /\ buildPc' = "config"
    /\ UNCHANGED <<metaVars, configFn, errorConfigFn, routes, trace, reqVars>>

\* a plausible slip: both hooks are applied before the routes are registered
buildConfig_BothHooks ==
    /\ buildPc = "config"
    /\ app' = app \o (IF configFn = "user" THEN <<serverMiddleware>> ELSE <<>>)
                  \o (IF errorConfigFn = "user" THEN <<errorMiddleware>> ELSE <<>>)
    /\ trace' = trace \o <<"configFn", "errorConfigFn">>
    /\ buildPc' = "register"
    /\ UNCHANGED <<metaVars, configFn, errorConfigFn, routes, reqVars>>

\* a plausible slip: the principal middleware is registered after the config
\* function has run, so the server-level middleware stands before it
buildConfig_BeforePrincipal ==
    /\ buildPc = "config"
    /\ app' = IF configFn = "user" THEN <<serverMiddleware>> \o app ELSE app
    /\ trace' = Append(trace, "configFn")
    /\ buildPc' = "register"
    /\ UNCHANGED <<metaVars, configFn, errorConfigFn, routes, reqVars>>

\* build(), lines 85-88: this._configFn.apply(undefined, [this._app])
buildConfig ==
    /\ buildPc = "config"
    /\ app' = IF configFn = "user" THEN Append(app, serverMiddleware) ELSE app
    /\ trace' = Append(trace, "configFn")
    /\ buildPc' = "register"
    /\ UNCHANGED <<metaVars, configFn, errorConfigFn, routes, reqVars>>

\* build(), line 90: this.registerControllers()
buildRegister ==
    /\ buildPc = "register"
    /\ routes' = routes \o registerControllers(Controllers)
    /\ app' = Append(app, routerMiddleware)
    /\ trace' = Append(trace, "registerControllers")
    /\ buildPc' = "errorConfig"
    /\ UNCHANGED <<metaVars, configFn, errorConfigFn, reqVars>>

\* build(), lines 92-97: this._errorConfigFn.apply(undefined, [this._app])
buildErrorConfig ==
    /\ buildPc = "errorConfig"
    /\ app' = IF errorConfigFn = "user" THEN Append(app, errorMiddleware) ELSE app
    /\ trace' = Append(trace, "errorConfigFn")
    /\ buildPc' = "done"
    /\ UNCHANGED <<metaVars, configFn, errorConfigFn, routes, reqVars>>

\* ------------------------------------------------------ request handling
\* a plausible slip: the first route that matches takes the request alone
Matched_FirstOnly(t) == <<routes[t]>>

\* the routes a request that matches route t matches: those registered
\* under the verb and path of t, in the order they were registered
Matched(t) ==
    SelectSeq(routes, LAMBDA rt : rt.method = routes[t].method
                                  /\ rt.path = routes[t].path)
RECURSIVE Stacks(_)
Stacks(rts) == IF rts = <<>> THEN <<>> ELSE rts[1].stack \o Stacks(Tail(rts))
\* what the router runs for such a request: the stacks of the routes it
\* matches, one after the other
Chain(t) == Stacks(Matched(t))

\* the handler a request is at: a middleware of the app, or, inside the
\* router, a handler of the stacks of the routes the request matches
Cur(r) ==
    IF app[layer[r]].kind = "router"
    THEN Chain(target[r])[pos[r]]
    ELSE app[layer[r]]

\* where next() leads from the handler at (l, p) of a request matching route
\* t: the next handler of the route's stack, then the next middleware of the
\* app; end when there is none
After(l, p, t) ==
    IF app[l].kind = "router" /\ p < Len(Chain(t))
    THEN [layer |-> l, pos |-> p + 1, end |-> FALSE]
    ELSE IF l < Len(app)
    THEN [layer |-> l + 1,
          pos |-> IF app[l + 1].kind = "router" THEN 1 ELSE 0,
          end |-> FALSE]
    ELSE [layer |-> l, pos |-> p, end |-> TRUE]

\* a user middleware that does not wait for what next() returned, or the
\* dispatcher of a method that does not
Detached(h) ==
    \/ h.kind \in {"mw", "wrapper"} /\ h.name \in DetachedNames
    \/ h.kind = "dispatch" /\ h.key \in DetachedKeys

\* what the handlers that have called next() are suspended on has completed:
\* they may resume
Release(r, n) == cascade' = [cascade EXCEPT ![r].released = n]

\* the current handler of r invokes its continuation. When there is no
\* handler left, next() returns a resolved promise. A detached handler
\* returns at once, which resolves the promise the handler before it is
\* suspended on.
CallNext(r) ==
    LET a == After(layer[r], pos[r], target[r])
    IN /\ continued' = [continued EXCEPT ![r] = Append(@, Cur(r))]
       /\ layer' = [layer EXCEPT ![r] = a.layer]
       /\ pos' = [pos EXCEPT ![r] = a.pos]
       /\ pc' = [pc EXCEPT ![r] = IF a.end THEN "done" ELSE "run"]
       /\ IF a.end \/ Detached(Cur(r))
          THEN Release(r, Len(continued[r]) + 1)
          ELSE UNCHANGED cascade

\* the error ctx.throw(code) creates
HttpError(code) == [status |-> code]

\* the promise of the current handler of r is rejected with error: the
\* handlers suspended on it may resume, with the error thrown at them
Reject(r, error) ==
    cascade' = [cascade EXCEPT ![r].released = Len(continued[r]),
                               ![r].error = error]

\* a plausible slip: the gate sets the status and goes on to next()
Throw_SetsStatus(r, code) ==
    /\ status' = [status EXCEPT ![r] = code]
    /\ CallNext(r)

\* ctx.throw(code): the request fails with that status
Throw(r, code) ==
    /\ status' = [status EXCEPT ![r] = code]
    /\ pc' = [pc EXCEPT ![r] = "failed"]
    /\ Reject(r, HttpError(code))
    /\ UNCHANGED <<layer, pos, continued>>

\* a request arrives that matches route t
StartRequest(r) ==
    /\ buildPc = "done"
    /\ pc[r] = "idle"
    /\ \E t \in 1..Len(routes) :
          /\ Matched(t)[1] = routes[t]
          /\ target' = [target EXCEPT ![r] = t]
    /\ layer' = [layer EXCEPT ![r] = 1]
    /\ pc' = [pc EXCEPT ![r] = "run"]
    /\ UNCHANGED <<metaVars, serverVars, pos, principal, resolved, gate,
                   started, continued, status, body, headerSent,
                   cascade, methodResult, thrown,
                   receiver>>

\* build(), line 81: the first middleware calls _getCurrentPrincipal and
\* awaits it
PrincipalStart(r) ==
    /\ pc[r] = "run"
    /\ Cur(r).kind = "principal"
    /\ started' = [started EXCEPT ![r] = Append(@, Cur(r))]
    /\ resolved' = [resolved EXCEPT ![r] = @ + 1]
    /\ pc' = [pc EXCEPT ![r] = "principal"]
    /\ UNCHANGED <<metaVars, serverVars, target, layer, pos, principal, gate,
                   continued, status, body, headerSent,
                   cascade, methodResult, thrown,
                   receiver>>

\* build(), lines 81-82: the promise resolves, ctx.state.principal is set,
\* next() is called
PrincipalResume(r) ==
    /\ pc[r] = "principal"
    /\ \E p \in getCurrentPrincipal(AuthProvider) :
          principal' = [principal EXCEPT ![r] = p]
    /\ CallNext(r)
    /\ UNCHANGED <<metaVars, serverVars, target, resolved, gate, started,
                   status, body, headerSent, methodResult, thrown,
                   receiver>>

\* a middleware of the user, or the wrapper that calls the handler of a
\* BaseMiddleware instance: it calls next(), or returns without
Middleware(r) ==
    /\ pc[r] = "run"
    /\ Cur(r).kind \in {"mw", "wrapper"}
    /\ started' = [started EXCEPT ![r] = Append(@, Cur(r))]
    /\ \E callsNext \in BOOLEAN :
          IF callsNext THEN CallNext(r)
          ELSE /\ pc' = [pc EXCEPT ![r] = "halted"]
               /\ Release(r, Len(continued[r]))
               /\ UNCHANGED <<layer, pos, continued>>
    /\ UNCHANGED <<metaVars, serverVars, target, principal, resolved, gate,
                   status, body, headerSent, methodResult, thrown,
                   receiver>>

\* a plausible slip: the authorization test comes first
GateOutcome_AuthorizedFirst(isAuth, isAuthorized) ==
    IF ~isAuthorized THEN "403"
    ELSE IF ~isAuth THEN "401"
    ELSE "next"

\* authorization handler, lines 195-201
GateOutcome(isAuth, isAuthorized) ==
    IF ~isAuth THEN "401"
    ELSE IF ~isAuthorized THEN "403"
    ELSE "next"

GateDecide(r, isAuth, isAuthorized) ==
    LET o == GateOutcome(isAuth, isAuthorized)
    IN IF o = "401" THEN Throw(r, Unauthorized)
       ELSE IF o = "403" THEN Throw(r, Forbidden)
       ELSE CallNext(r) /\ UNCHANGED status

\* authorization handler, lines 176-182: no principal in the state, or the
\* call of principal.isAuthenticated(), which is awaited
GateStart(r) ==
    /\ pc[r] = "run"
    /\ Cur(r).kind = "auth"
    /\ started' = [started EXCEPT ![r] = Append(@, Cur(r))]
    /\ gate' = [gate EXCEPT ![r] = NoGate]
    /\ IF principal[r] # Absent
       THEN /\ pc' = [pc EXCEPT ![r] = "isAuth"]
            /\ UNCHANGED <<layer, pos, continued, status, cascade>>
       ELSE GateDecide(r, FALSE, FALSE)
    /\ UNCHANGED <<metaVars, serverVars, target, principal, resolved, body,
                   headerSent, methodResult, thrown,
                   receiver>>

\* a plausible slip: isAuthenticated and isAuthorized are declared in the
\* factory, outside the handler it returns, and every request through the
\* gate reads and writes the same two
GateIsAuth_SharedLocals(r) ==
    /\ pc[r] = "isAuth"
    /\ LET isAuth == isAuthenticated(principal[r])
           requiredRoles == Cur(r).requiredRoles
           shared == [q \in Requests |->
                        [gate[q] EXCEPT !.isAuthenticated = isAuth,
                                        !.isAuthorized = isAuth]]
       IN IF isAuth /\ Len(requiredRoles) > 0
          THEN /\ gate' = [shared EXCEPT ![r].idx = 1]
               /\ pc' = [pc EXCEPT ![r] = "role"]
               /\ UNCHANGED <<layer, pos, continued, status, cascade>>
          ELSE /\ gate' = [shared EXCEPT ![r].idx = 0]
               /\ GateDecide(r, isAuth, isAuth)
    /\ UNCHANGED <<metaVars, serverVars, target, principal, resolved, started,
                   body, headerSent, methodResult, thrown, receiver>>

\* a plausible slip: isAuthorized is set only inside the loop over the roles,
\* so it stays false when the list is empty
GateIsAuth_TrueOnlyInLoop(r) ==
    /\ pc[r] = "isAuth"
    /\ LET isAuth == isAuthenticated(principal[r])
           requiredRoles == Cur(r).requiredRoles
       IN IF isAuth /\ Len(requiredRoles) > 0
          THEN /\ gate' = [gate EXCEPT ![r] =
                     [isAuthenticated |-> TRUE, isAuthorized |-> TRUE, idx |-> 1]]
               /\ pc' = [pc EXCEPT ![r] = "role"]
               /\ UNCHANGED <<layer, pos, continued, status, cascade>>
          ELSE /\ gate' = [gate EXCEPT ![r] =
                     [isAuthenticated |-> isAuth, isAuthorized |-> FALSE, idx |-> 0]]
               /\ GateDecide(r, isAuth, FALSE)
    /\ UNCHANGED <<metaVars, serverVars, target, principal, resolved, started,
                   body, headerSent, methodResult, thrown,
                   receiver>>

\* authorization handler, lines 182-187: isAuthenticated() has resolved
GateIsAuth(r) ==
    /\ pc[r] = "isAuth"
    /\ LET isAuth == isAuthenticated(principal[r])
           requiredRoles == Cur(r).requiredRoles
       IN IF isAuth /\ Len(requiredRoles) > 0
          THEN /\ gate' = [gate EXCEPT ![r] =
                     [isAuthenticated |-> TRUE, isAuthorized |-> TRUE, idx |-> 1]]
               /\ pc' = [pc EXCEPT ![r] = "role"]
               /\ UNCHANGED <<layer, pos, continued, status, cascade>>
          ELSE /\ gate' = [gate EXCEPT ![r] =
                     [isAuthenticated |-> isAuth, isAuthorized |-> isAuth, idx |-> 0]]
               /\ GateDecide(r, isAuth, isAuth)
    /\ UNCHANGED <<metaVars, serverVars, target, principal, resolved, started,
                   body, headerSent, methodResult, thrown,
                   receiver>>

\* a plausible slip: isAuthorized = isInRole, the last role decides
RoleStep_LastRoleDecides(isAuthorized, inRole) == inRole

\* authorization handler, lines 188-190: a role the principal is not in
\* clears isAuthorized, and nothing sets it again
RoleStep(isAuthorized, inRole) == IF ~inRole THEN FALSE ELSE isAuthorized

\* authorization handler, lines 186-191: isInRole(requiredRole) has resolved;
\* the loop goes on to the next role, or ends
GateRole(r) ==
    /\ pc[r] = "role"
    /\ LET requiredRoles == Cur(r).requiredRoles
           inRole == isInRole(principal[r], requiredRoles[gate[r].idx])
           isAuthorized == RoleStep(gate[r].isAuthorized, inRole)
       IN IF gate[r].idx < Len(requiredRoles)
          THEN /\ gate' = [gate EXCEPT ![r].isAuthorized = isAuthorized,
                                       ![r].idx = @ + 1]
               /\ UNCHANGED <<pc, layer, pos, continued, status, cascade>>
          ELSE /\ gate' = [gate EXCEPT ![r].isAuthorized = isAuthorized]
               /\ GateDecide(r, gate[r].isAuthenticated, isAuthorized)
    /\ UNCHANGED <<metaVars, serverVars, target, principal, resolved, started,
                   body, headerSent, methodResult, thrown,
                   receiver>>

\* a plausible slip: no test of ctx.headerSent
DispatchOutcome_IgnoresHeaderSent(result, sent) ==
    IF result \notin Falsy /\ result = Promise THEN "return"
    ELSE IF result \notin Falsy THEN "assign"
    ELSE "nothing"

\* a plausible slip: the promise is not returned, the dispatcher completes
\* while it is pending
DispatchOutcome_DropsPromise(result, sent) ==
    IF result \notin Falsy /\ result = Promise THEN "nothing"
    ELSE IF result \notin Falsy /\ ~sent THEN "assign"
    ELSE "nothing"

\* the dispatcher, lines 234-239: what it does with the result of the method
DispatchOutcome(result, sent) ==
    IF result \notin Falsy /\ result = Promise THEN "return"
    ELSE IF result \notin Falsy /\ ~sent THEN "assign"
    ELSE "nothing"

\* a plausible slip: the call is wrapped in try/catch, and the dispatcher
\* answers with the message of the error
DispatchThrows_Caught(r, error) ==
    /\ thrown' = [thrown EXCEPT ![r] = error]
    /\ body' = [body EXCEPT ![r] = error.message]
    /\ pc' = [pc EXCEPT ![r] = "done"]
    /\ Release(r, Len(continued[r]))
    /\ UNCHANGED status

\* the dispatcher, lines 229-237: nothing stands between the call of the
\* method, or the promise it returned, and the promise of the dispatcher: an
\* error of the method rejects it, and no statement of the dispatcher runs
\* after the call
DispatchThrows(r, error) ==
    /\ thrown' = [thrown EXCEPT ![r] = error]
    /\ pc' = [pc EXCEPT ![r] = "rejected"]
    /\ Reject(r, error)
    /\ UNCHANGED <<body, status>>

\* the dispatcher, lines 229-236, of a method that calls the continuation it
\* is given: the chain goes on with the handler after it; the method assigns
\* nothing itself, and the dispatcher returns the promise it returned
DispatchContinues(r) ==
    /\ CallNext(r)
    /\ methodResult' = [methodResult EXCEPT ![r] = Continued]
    /\ UNCHANGED <<body, status, thrown>>

\* the dispatcher, lines 229-239: the controller method is called. It
\* returns a result or throws. The promise of the dispatcher resolves when
\* the method returns, unless it returns a promise: then the promise of the
\* dispatcher settles as that one does.
Dispatch(r) ==
    /\ pc[r] = "run"
    /\ Cur(r).kind = "dispatch"
    /\ started' = [started EXCEPT ![r] = Append(@, Cur(r))]
    /\ IF getNamed(Cur(r).name) = None
       THEN /\ pc' = [pc EXCEPT ![r] = "rejected"]
            /\ Reject(r, LookupError)
            /\ UNCHANGED <<layer, pos, continued, body, status, methodResult,
                           thrown, receiver>>
       ELSE /\ receiver' = [receiver EXCEPT ![r] = getNamed(Cur(r).name)]
            /\ IF Cur(r).key \in CallsNext
               THEN DispatchContinues(r)
               ELSE /\ \/ \E result \in Results :
                             LET o == DispatchOutcome(result, headerSent[r])
                             IN /\ IF o = "assign"
                                   THEN /\ body' = [body EXCEPT ![r] = result]
                                        /\ status' = [status EXCEPT ![r] = StatusOk]
                                   ELSE UNCHANGED <<body, status>>
                                /\ IF o = "return"
                                   THEN /\ pc' = [pc EXCEPT ![r] = "pending"]
                                        /\ UNCHANGED cascade
                                   ELSE /\ pc' = [pc EXCEPT ![r] = "done"]
                                        /\ Release(r, Len(continued[r]))
                                /\ methodResult' = [methodResult EXCEPT ![r] = result]
                                /\ UNCHANGED thrown
                       \/ \E error \in MethodErrors :
                             /\ methodResult' = [methodResult EXCEPT ![r] = Thrown]
                             /\ DispatchThrows(r, error)
                    /\ UNCHANGED <<layer, pos, continued>>
    /\ UNCHANGED <<metaVars, serverVars, target, principal, resolved, gate,
                   headerSent>>

\* the promise the method returned settles, and with it that of the
\* dispatcher when the dispatcher has returned it
Settle(r) ==
    /\ methodResult[r] = Promise
    /\ \/ /\ methodResult' = [methodResult EXCEPT ![r] = Settled]
          /\ IF pc[r] = "pending"
             THEN /\ pc' = [pc EXCEPT ![r] = "done"]
                  /\ Release(r, Len(continued[r]))
             ELSE UNCHANGED <<pc, cascade>>
          /\ UNCHANGED <<thrown, body, status>>
       \/ \E error \in MethodErrors :
             /\ methodResult' = [methodResult EXCEPT ![r] = Rejected]
             /\ IF pc[r] = "pending"
                THEN DispatchThrows(r, error)
                ELSE /\ thrown' = [thrown EXCEPT ![r] = error]
                     /\ UNCHANGED <<pc, cascade, body, status>>
    /\ UNCHANGED <<metaVars, serverVars, target, layer, pos, principal,
                   resolved, gate, started, continued, headerSent, receiver>>

RECURSIVE Awaiters(_)
\* the handlers of hs that are suspended on next(), innermost first
Awaiters(hs) ==
    IF hs = <<>> THEN <<>>
    ELSE Awaiters(Tail(hs)) \o (IF Detached(hs[1]) THEN <<>> ELSE <<hs[1]>>)

RECURSIVE LastDetached(_)
\* the index of the last handler of hs that is detached, 0 when none is
LastDetached(hs) ==
    IF hs = <<>> THEN 0
    ELSE IF Detached(hs[Len(hs)]) THEN Len(hs)
    ELSE LastDetached(SubSeq(hs, 1, Len(hs) - 1))

\* the handlers that may resume do, innermost first; when the outermost
\* has, the promise of the chain is settled and koa sends the response. An
\* error is thrown at the handlers that await up to the innermost detached
\* one, whose promise nobody holds; that one and the handlers before it
\* resume as they do after a chain that has completed.
Unwind(r) ==
    /\ cascade[r].unwound < cascade[r].released
    /\ LET from == cascade[r].unwound + 1
           to == cascade[r].released
           detached == LastDetached(continued[r])
           cut == IF cascade[r].error = Absent THEN to
                  ELSE IF detached > cascade[r].unwound THEN detached
                  ELSE cascade[r].unwound
       IN cascade' = [cascade EXCEPT
              ![r].unwound = to,
              ![r].resumed = @ \o Awaiters(SubSeq(continued[r], from, cut)),
              ![r].raised = @ \o Awaiters(SubSeq(continued[r], cut + 1, to))]
    /\ headerSent' = [headerSent EXCEPT ![r] = TRUE]
    /\ UNCHANGED <<metaVars, serverVars, pc, target, layer, pos, principal,
                   resolved, gate, started, continued, status, body,
                   methodResult, thrown,
                   receiver>>

Serve(r) ==
    \/ StartRequest(r)
    \/ PrincipalStart(r)
    \/ PrincipalResume(r)
    \/ Middleware(r)
    \/ GateStart(r)
    \/ GateIsAuth(r)
    \/ GateRole(r)
    \/ Dispatch(r)
    \/ Settle(r)
    \/ Unwind(r)

Next ==
    \/ setConfig
    \/ setErrorConfig
    \/ buildPrincipal
    \/ buildConfig
    \/ buildRegister
    \/ buildErrorConfig
    \/ \E r \in Served : Serve(r)

Spec == Init /\ [][Next]_vars

\* ------------------------------------------- registration of any classes
\* the verbs, paths and method names the classes of SpecRegister are
\* decorated with
Verbs == {"get", "post"}
ControllerPaths == {<<"/">>, <<"/", "a", "/">>}
MethodPaths == {<<>>, <<"/">>, <<":", "i", "d">>}
Keys == <<"getTest", "getAll", "postTest", "putTest">>
\* the lists @httpMethod leaves on a class with n decorated methods: the
\* i-th entry is that of the i-th method
MethodLists(n) ==
    {[i \in 1..n |-> httpMethod(verb[i], path[i], <<>>, Keys[i])] :
        verb \in [1..n -> Verbs], path \in [1..n -> MethodPaths]}
\* a second class: with no metadata at all, with @controller but no
\* decorated method, with decorated methods but no @controller, with both
OtherControllerMetadata == [controller(<<"o">>, <<>>) EXCEPT !.target = "OtherController"]
OtherClasses ==
    {ClassOf("OtherController", cm, mm, EmptyFn, Absent) :
        cm \in {Absent, OtherControllerMetadata},
        mm \in {<<>>, <<httpMethod("get", <<"/">>, <<>>, "getOther")>>}}

InitRegister ==
    /\ controllerMetadata \in
          {Absent} \cup {controller(p, <<>>) : p \in ControllerPaths}
    /\ methodMetadata \in UNION {MethodLists(n) : n \in 0..MaxMethods}
    /\ otherControllers \in {<<>>} \cup {<<c>> : c \in OtherClasses}
    /\ named = NamedAfterClass
    /\ authorizeAllMetadata = Absent
    /\ authorizeMetadata = EmptyFn
    /\ AuthProvider = FALSE
    /\ container = EmptyFn
    /\ NoCall
    /\ InitServer

NextRegister ==
    \/ setConfig
    \/ setErrorConfig
    \/ buildPrincipal
    \/ buildConfig
    \/ buildRegister
    \/ buildErrorConfig

\* ------------------------------------- requests through detached middleware
\* the middleware lists of the controller class: middleware that await
\* next() and middleware that call it and return
CascadeMiddleware == {<<>>, <<"a">>, <<"c1", "a">>, <<"a", "c1">>, <<"a", "b">>}

InitCascade ==
    /\ \E mw \in CascadeMiddleware :
          controllerMetadata = controller(<<"/">>, mw)
    /\ methodMetadata = TestControllerMethods
    /\ otherControllers = <<>>
    /\ named = NamedAfterClass
    /\ authorizeAllMetadata \in {Absent, authorizeAll(<<"role a">>)}
    /\ authorizeMetadata = EmptyFn
    /\ AuthProvider \in BOOLEAN
    /\ container = EmptyFn
    /\ NoCall
    /\ InitServer

SpecCascade == InitCascade /\ [][Next]_vars

SpecRegister == InitRegister /\ [][NextRegister]_vars

\* ------------------------------------------- resolveMiddleware on its own
\* the refs a middleware list is made of: an inline function, service
\* identifiers
MiddlewareRefs == {"m1", "TestMiddleware", "TestService"}
\* what a bound ref may resolve to: an instance of a class that extends
\* BaseMiddleware, a function, any other object
InstanceKinds == {"BaseMiddleware", "Function", "Object"}
InstanceName(ref) ==
    IF ref = "m1" THEN "m1 bound"
    ELSE IF ref = "TestMiddleware" THEN "testMiddleware" ELSE "testService"
Containers ==
    UNION {{[ref \in bound |-> [instanceOf |-> kind[ref], name |-> InstanceName(ref)]] :
               kind \in [bound -> InstanceKinds]} : bound \in SUBSET MiddlewareRefs}

InitResolve ==
    /\ container \in Containers
    /\ middleware \in UNION {[1..n -> MiddlewareRefs] : n \in 0..MaxRefs}
    /\ parameterMetadata = EmptyFn
    /\ callCtx = Absent
    /\ pathArgs = <<>>
    /\ declaration = <<>>
    /\ applied = 0
    /\ returned = Absent
    /\ controllerMetadata = controller(<<"/">>, <<>>)
    /\ methodMetadata = TestControllerMethods
    /\ otherControllers = <<>>
    /\ named = NamedAfterClass
    /\ authorizeAllMetadata = Absent
    /\ authorizeMetadata = EmptyFn
    /\ AuthProvider = FALSE
    /\ InitServer

\* this.resolveMiddleware(...middleware)
callResolveMiddleware ==
    /\ returned = Absent
    /\ returned' = [fn |-> "resolveMiddleware", value |-> resolveMiddleware(middleware)]
    /\ UNCHANGED <<classVars, middleware, parameterMetadata, callCtx, pathArgs,
                   declaration, applied,
                   serverVars, reqVars>>

NextResolve == callResolveMiddleware

SpecResolve == InitResolve /\ [][NextResolve]_vars

\* ------------------------------------------- extractParameters on its own
\* PARAMETER_TYPE, and a type that is none of its members
ParameterTypes ==
    {"REQUEST", "RESPONSE", "PARAMS", "QUERY", "BODY", "HEADERS", "COOKIES",
     "NEXT", "CTX", "UNKNOWN"}
\* the names a binding may carry: a field every source map has with a
\* truthy value, a field the query, the body and the headers have with a
\* falsy value, the name a decorator without argument gets (no source has
\* such a field), a method of the cookie jar
ParameterNames == {"id", "empty", "default", "get"}
\* the continuation handed to the dispatcher
nextFunc == Fn("next")
\* the request: GET-or-POST /foo?id=foo&empty= with header and cookie; body
\* is what a body parser has left on ctx.request, undefined without one
RequestOf(parsed) ==
    Obj("request", [body |-> parsed,
                    headers |-> Obj("headers", [id |-> Str("foo"), empty |-> Str("")]),
                    url |-> Str("/foo?id=foo&empty=")])
ResponseOf == Obj("response", [status |-> Num(404)])
CookieJar ==
    [id |-> "cookies", props |-> [get |-> Fn("cookies.get")],
     store |-> [id |-> Str("hey")]]
ParsedBody == Obj("body", [id |-> Str("foo"), empty |-> Num(0)])
ContextOf(parsed) ==
    Obj("ctx", [params |-> Obj("params", [id |-> Str("foo"), empty |-> Str("")]),
                query |-> Obj("query", [id |-> Str("foo"), empty |-> Str("")]),
                cookies |-> CookieJar,
                request |-> RequestOf(parsed),
                response |-> ResponseOf])
Contexts == {ContextOf(parsed) : parsed \in {Undefined, ParsedBody}}

\* the bindings @params leaves for a method whose decorated parameters are,
\* among its first n, those at the positions of at: ascending by index (each
\* decorator unshifts, and the decorators of the last parameter run first)
RECURSIVE BindingList(_, _, _)
BindingList(n, at, binding) ==
    IF n = 0 THEN <<>>
    ELSE BindingList(n - 1, at, binding)
         \o (IF (n - 1) \in at
             THEN <<[index |-> n - 1,
                     parameterName |-> binding[n - 1].parameterName,
                     type |-> binding[n - 1].type]>>
             ELSE <<>>)
\* the first decorated parameter takes any type and name; the ones after it
\* rebind ctx or next, or bind the cookie of the request
AnyBinding == [type : ParameterTypes, parameterName : ParameterNames]
LaterBindings ==
    {[type |-> "CTX", parameterName |-> "default"],
     [type |-> "NEXT", parameterName |-> "default"],
     [type |-> "COOKIES", parameterName |-> "id"]}
Lowest(at) == CHOOSE i \in at : \A k \in at : i <= k
BindingLists ==
    UNION {{BindingList(MaxParams, at, binding) :
               binding \in {b \in [at -> AnyBinding] :
                               \A i \in at \ {Lowest(at)} : b[i] \in LaterBindings}} :
           at \in (SUBSET (0..(MaxParams - 1))) \ {{}}}

\* registerControllers, lines 139-142: the bindings of the method named key
paramListOf(key) ==
    IF key \in DOMAIN parameterMetadata THEN parameterMetadata[key] ELSE <<>>

InitExtract ==
    /\ \E decorated \in SUBSET {"getTest", "getAll"} :
       \E list \in BindingLists :
          parameterMetadata =
              [k \in decorated |->
                  IF k = "getTest" THEN list
                  ELSE <<[index |-> 0, parameterName |-> "default", type |-> "CTX"]>>]
    /\ callCtx \in Contexts
    /\ pathArgs = <<>>
    /\ declaration = <<>>
    /\ applied = 0
    /\ middleware = <<>>
    /\ returned = Absent
    /\ controllerMetadata = controller(<<"/">>, <<>>)
    /\ methodMetadata = TestControllerMethods
    /\ otherControllers = <<>>
    /\ named = NamedAfterClass
    /\ authorizeAllMetadata = Absent
    /\ authorizeMetadata = EmptyFn
    /\ AuthProvider = FALSE
    /\ container = EmptyFn
    /\ InitServer

\* the dispatcher of getTest, line 230: this.extractParameters(ctx, next,
\* parameterMetadata)
callExtractParameters ==
    /\ returned = Absent
    /\ returned' = [fn |-> "extractParameters",
                    value |-> extractParameters(callCtx, nextFunc, paramListOf("getTest"))]
    /\ UNCHANGED <<classVars, middleware, parameterMetadata, callCtx, pathArgs,
                   declaration, applied,
                   serverVars, reqVars>>

NextExtract == callExtractParameters

SpecExtract == InitExtract /\ [][NextExtract]_vars

\* a class with the one method getTest
SameNameMethods == <<httpMethod("get", <<"/">>, <<>>, "getTest")>>

\* ------------------------------------------ requests served side by side
\* a route behind a gate of two roles; the requests run up to the
\* dispatcher, each step of one between any two steps of the other
InitConcurrent ==
    /\ controllerMetadata = controller(<<"/">>, <<>>)
    /\ methodMetadata = SameNameMethods
    /\ otherControllers = <<>>
    /\ named = NamedAfterClass
    /\ authorizeAllMetadata = authorizeAll(<<"role a", "role b">>)
    /\ authorizeMetadata = EmptyFn
    /\ AuthProvider \in BOOLEAN
    /\ container = EmptyFn
    /\ NoCall
    /\ InitServer

ServeGate(r) ==
    \/ StartRequest(r)
    \/ PrincipalStart(r)
    \/ PrincipalResume(r)
    \/ GateStart(r)
    \/ GateIsAuth(r)
    \/ GateRole(r)

NextConcurrent ==
    \/ buildPrincipal
    \/ buildConfig
    \/ buildRegister
    \/ buildErrorConfig
    \/ \E r \in Requests : ServeGate(r)

SpecConcurrent == InitConcurrent /\ [][NextConcurrent]_vars

\* ------------------------------- controllers with a method of one name
\* TestController alone or with OtherController, each with a method
\* getTest; each binding named after its class, or given no name
InitNamed ==
    /\ controllerMetadata = controller(<<"/">>, <<>>)
    /\ methodMetadata = SameNameMethods
    /\ otherControllers \in
          {<<>>, <<ClassOf("OtherController", OtherControllerMetadata,
                           SameNameMethods, EmptyFn, Absent)>>}
    /\ named \in {n \in [1..Len(NamedAfterClass) -> {None} \cup
                                {NamedAfterClass[i] : i \in 1..Len(NamedAfterClass)}] :
                      \A i \in 1..Len(n) : n[i] \in {None, NamedAfterClass[i]}}
    /\ authorizeAllMetadata \in {Absent, authorizeAll(<<"role a">>)}
    /\ authorizeMetadata = EmptyFn
    /\ AuthProvider = TRUE
    /\ container = EmptyFn
    /\ NoCall
    /\ InitServer

SpecNamed == InitNamed /\ [][Next]_vars

\* ----------------------------------- two methods under one verb and path
\* the first method returns without calling its continuation, or calls it
\* and awaits it, or calls it and does not; the second may carry a rule
FirstMethods == {"getTest", "nextAwaited", "nextDetached"}
InitDuplicate ==
    /\ controllerMetadata = controller(<<"/">>, <<"c1">>)
    /\ \E first \in FirstMethods :
          methodMetadata = <<httpMethod("get", <<"/">>, <<>>, first),
                             httpMethod("get", <<"/">>, <<>>, "getResult")>>
    /\ otherControllers = <<>>
    /\ named = NamedAfterClass
    /\ authorizeAllMetadata = Absent
    /\ authorizeMetadata \in
          {EmptyFn, authorize(EmptyFn, <<"role a">>, "getResult")}
    /\ AuthProvider \in BOOLEAN
    /\ container = EmptyFn
    /\ NoCall
    /\ InitServer

SpecDuplicate == InitDuplicate /\ [][Next]_vars

\* ------------------------------------------- parameter decorators of a class
\* the decorator of a parameter: @requestParam(name) on the parameters of
\* the first method, @queryParam(name) on those of the others
ParamNames == <<"id", "cat", "dog", "bird">>
DecoratorOf(m, i) ==
    [type |-> IF m = 1 THEN "PARAMS" ELSE "QUERY", parameterName |-> ParamNames[i]]
\* the classes: up to MaxMethods methods of up to MaxParams parameters, each
\* decorated or not
Declarations ==
    {[m \in 1..n |->
        [methodName |-> Keys[m],
         decorators |-> [i \in 1..arity[m] |->
                            IF i \in decorated[m] THEN DecoratorOf(m, i) ELSE Absent]]] :
        n \in 1..MaxMethods,
        arity \in [1..MaxMethods -> 0..MaxParams],
        decorated \in [1..MaxMethods -> SUBSET (1..MaxParams)]}

RECURSIVE ParameterDecorators(_, _)
\* the decorators of the parameters of method, from the parameter at
\* position i down to the first: the order __decorate applies them in.
\* The index of a parameter is its position from 0.
ParameterDecorators(method, i) ==
    IF i = 0 THEN <<>>
    ELSE (IF method.decorators[i] = Absent THEN <<>>
          ELSE <<[methodName |-> method.methodName, index |-> i - 1,
                  type |-> method.decorators[i].type,
                  parameterName |-> method.decorators[i].parameterName]>>)
         \o ParameterDecorators(method, i - 1)

RECURSIVE DecoratorCalls(_)
\* the calls of the decorators of a class, in order: method after method as
\* declared
DecoratorCalls(methods) ==
    IF methods = <<>> THEN <<>>
    ELSE ParameterDecorators(methods[1], Len(methods[1].decorators))
         \o DecoratorCalls(Tail(methods))

InitParams ==
    /\ declaration \in Declarations
    /\ applied = 0
    /\ parameterMetadata = EmptyFn
    /\ middleware = <<>>
    /\ callCtx = Absent
    /\ pathArgs = <<>>
    /\ returned = Absent
    /\ controllerMetadata = controller(<<"/">>, <<>>)
    /\ methodMetadata = TestControllerMethods
    /\ otherControllers = <<>>
    /\ named = NamedAfterClass
    /\ authorizeAllMetadata = Absent
    /\ authorizeMetadata = EmptyFn
    /\ AuthProvider = FALSE
    /\ container = EmptyFn
    /\ InitServer

\* the next decorator of the class is applied
applyParams ==
    /\ applied < Len(DecoratorCalls(declaration))
    /\ LET call == DecoratorCalls(declaration)[applied + 1]
       IN parameterMetadata' =
             paramsDecorator(parameterMetadata, call.methodName, call.index,
                             call.parameterName, call.type)
    /\ applied' = applied + 1
    /\ UNCHANGED <<classVars, middleware, callCtx, pathArgs, declaration, returned,
                   serverVars, reqVars>>

NextParams == applyParams

SpecParams == InitParams /\ [][NextParams]_vars

\* ------------------------------------------------------ pathJoin on its own
\* the characters of the segments, the strings of up to MaxLen of them, and
\* the arguments pathJoin may be given: those strings, null and undefined
Alphabet == {"/", "a"}
Strings == UNION {[1..n -> Alphabet] : n \in 0..MaxLen}
Segments == {Str(str) : str \in Strings} \cup {Null, Undefined}

InitPathJoin ==
    /\ \E n \in 0..MaxArgs : pathArgs \in [1..n -> Segments]
    /\ declaration = <<>>
    /\ applied = 0
    /\ middleware = <<>>
    /\ parameterMetadata = EmptyFn
    /\ callCtx = Absent
    /\ returned = Absent
    /\ controllerMetadata = controller(<<"/">>, <<>>)
    /\ methodMetadata = TestControllerMethods
    /\ otherControllers = <<>>
    /\ named = NamedAfterClass
    /\ authorizeAllMetadata = Absent
    /\ authorizeMetadata = EmptyFn
    /\ AuthProvider = FALSE
    /\ container = EmptyFn
    /\ InitServer

\* pathJoin(...args)
callPathJoin ==
    /\ returned = Absent
    /\ returned' = [fn |-> "pathJoin", value |-> Str(pathJoin(pathArgs))]
    /\ UNCHANGED <<classVars, middleware, parameterMetadata, callCtx, pathArgs,
                   declaration, applied,
                   serverVars, reqVars>>

NextPathJoin == callPathJoin

SpecPathJoin == InitPathJoin /\ [][NextPathJoin]_vars

\* ================================================================ claims
Names(hs) == [i \in 1..Len(hs) |-> hs[i].name]
IsPrefix(s, t) == Len(s) <= Len(t) /\ SubSeq(t, 1, Len(s)) = s
CountKind(hs, kind) == Cardinality({i \in 1..Len(hs) : hs[i].kind = kind})
Last(hs) == hs[Len(hs)]

\* the method a request is routed to, and the rules its route carries
KeyOf(t) == methodMetadata[t].key
HasClassRule == authorizeAllMetadata # Absent
HasMethodRule(t) == KeyOf(t) \in DOMAIN authorizeMetadata
Guarded(t) == HasClassRule \/ HasMethodRule(t)
ClassRoles == authorizeAllMetadata.requiredRoles
MethodRoles(t) == authorizeMetadata[KeyOf(t)].requiredRoles
RuleCount(t) == (IF HasClassRule THEN 1 ELSE 0) + (IF HasMethodRule(t) THEN 1 ELSE 0)

\* the principal of r passes a gate that requires the roles of requiredRoles
Authenticated(r) == principal[r] # Absent /\ principal[r].auth
HasAllRoles(r, requiredRoles) ==
    \A i \in 1..Len(requiredRoles) : requiredRoles[i] \in principal[r].roles

\* a gate is the last handler r has started, and it is not awaiting
GateActed(r) ==
    /\ Len(started[r]) > 0
    /\ Last(started[r]).kind = "auth"
    /\ pc[r] \notin {"isAuth", "role"}
\* the chain of r has come to its end, other than by a middleware of the
\* user returning without next()
Ended(r) == pc[r] \in {"done", "failed"}

\* the handlers a request matching route t is to run, by name, in order
ExpectedNames(t) ==
    <<"principal">>
    \o (IF configFn = "user" THEN <<"s1">> ELSE <<>>)
    \o controllerMetadata.middleware
    \o methodMetadata[t].middleware
    \o [i \in 1..RuleCount(t) |-> "auth"]
    \o <<controllerMetadata.target>>

\* C1: the handlers of a request to a registered route start in the order
\* principal middleware, server-level middleware of the config function,
\* controller middleware as declared, method middleware as declared,
\* authorization gates, dispatcher; every handler but the one started last
\* has invoked its continuation, and a request that completes has run them
\* all.
C1_HandlerOrder ==
    \A r \in Requests : target[r] # 0 =>
        /\ IsPrefix(Names(started[r]), ExpectedNames(target[r]))
        /\ IsPrefix(continued[r], started[r])
        /\ Len(started[r]) - Len(continued[r]) <= 1
        /\ (pc[r] = "done" => Names(started[r]) = ExpectedNames(target[r]))

C1_Witness ==
    \E r \in Requests :
        /\ pc[r] = "done"
        /\ Names(started[r]) =
             <<"principal", "s1", "c1", "c2", "m1", "m2", "auth", "auth", "TestController">>

\* C2: on a guarded route, once a gate has acted for a request whose principal
\* is missing or not authenticated, the request has failed with 401 at that
\* gate, whatever roles the principal has; its dispatcher never starts.
C2_Unauthenticated401 ==
    \A r \in Requests : (target[r] # 0 /\ Guarded(target[r]) /\ ~Authenticated(r)) =>
        /\ CountKind(started[r], "dispatch") = 0
        /\ pc[r] # "done"
        /\ (GateActed(r) =>
               /\ pc[r] = "failed"
               /\ status[r] = Unauthorized
               /\ CountKind(started[r], "auth") = 1)

C2_Witness ==
    \E r \in Requests :
        /\ pc[r] = "failed" /\ status[r] = Unauthorized
        /\ principal[r] # Absent /\ ~principal[r].auth /\ principal[r].roles = Roles
        /\ Len(Last(started[r]).requiredRoles) > 0

\* C3: once a gate has acted for an authenticated principal that lacks at
\* least one of the gate's required roles, at whatever position of the list,
\* the request has failed with 403 and the gate has not invoked its
\* continuation.
C3_MissingRole403 ==
    \A r \in Requests :
        (GateActed(r) /\ Authenticated(r)
           /\ ~HasAllRoles(r, Last(started[r]).requiredRoles)) =>
            /\ pc[r] = "failed"
            /\ status[r] = Forbidden
            /\ Len(continued[r]) = Len(started[r]) - 1

C3_Witness ==
    \E r \in Requests :
        /\ GateActed(r) /\ Authenticated(r)
        /\ Last(started[r]).requiredRoles = <<"role a", "role b">>
        /\ principal[r].roles = {"role b"}
        /\ status[r] = Forbidden

\* C4: a gate that has acted has invoked its continuation (once, with the
\* request not failed and its status untouched) exactly when the principal is
\* authenticated and has every role of the gate's list; with an empty list
\* that is every authenticated principal.
C4_GatePassesIff ==
    \A r \in Requests : GateActed(r) =>
        LET passed == /\ Len(continued[r]) = Len(started[r])
                      /\ Last(continued[r]) = Last(started[r])
                      /\ pc[r] = "run"
                      /\ status[r] = 404
        IN /\ passed <=> (Authenticated(r)
                            /\ HasAllRoles(r, Last(started[r]).requiredRoles))
           /\ ~passed => pc[r] = "failed" /\ Len(continued[r]) = Len(started[r]) - 1
           /\ (Last(started[r]).requiredRoles = <<>> /\ Authenticated(r)) => passed

C4_Witness ==
    \E r \in Requests :
        /\ GateActed(r) /\ Authenticated(r)
        /\ Last(started[r]).requiredRoles = <<>>
        /\ principal[r].roles = {}
        /\ Last(continued[r]).kind = "auth"
        /\ pc[r] = "run"
\* the principal of r lacks a role of the class-wide or of the method rule
LacksARole(r) ==
    ~(HasAllRoles(r, ClassRoles) /\ HasAllRoles(r, MethodRoles(target[r])))
DoublyGuarded(r) ==
    target[r] # 0 /\ HasClassRule /\ HasMethodRule(target[r])

\* C5 (as stated): on a route with both a class-wide and a method rule, a
\* request whose principal lacks a required role of either yields 403.
C5_AsStated ==
    \A r \in Requests :
        (DoublyGuarded(r) /\ principal[r] # Absent /\ LacksARole(r) /\ Ended(r)) =>
            status[r] = Forbidden

\* C5 (amended): on a route with both rules, a request whose principal lacks
\* a required role of either never reaches the dispatcher and never has
\* status 200; it ends failed, with 403 when the principal is authenticated
\* and with 401 when it is not.
C5_LackingRoleNever200 ==
    \A r \in Requests :
        (DoublyGuarded(r) /\ principal[r] # Absent /\ LacksARole(r)) =>
            /\ CountKind(started[r], "dispatch") = 0
            /\ status[r] # StatusOk
            /\ (Ended(r) =>
                   /\ pc[r] = "failed"
                   /\ status[r] = IF principal[r].auth THEN Forbidden
                                  ELSE Unauthorized)

C5_Witness ==
    \E r \in Requests :
        /\ DoublyGuarded(r) /\ Authenticated(r)
        /\ HasAllRoles(r, ClassRoles)
        /\ ~HasAllRoles(r, MethodRoles(target[r]))
        /\ CountKind(started[r], "auth") = 2
        /\ pc[r] = "failed" /\ status[r] = Forbidden

\* C6: without an auth provider the principal stored for a request answers
\* false to isAuthenticated, isInRole and isResourceOwner, and a request to
\* a route that carries a rule never reaches the dispatcher and ends failed
\* with 401.
C6_NoProvider401 ==
    ~AuthProvider =>
        \A r \in Requests :
            /\ Len(continued[r]) >= 1 =>
                  /\ principal[r] # Absent
                  /\ ~isAuthenticated(principal[r])
                  /\ \A role \in Roles : ~isInRole(principal[r], role)
                  /\ \A res \in Resources : ~isResourceOwner(principal[r], res)
            /\ (target[r] # 0 /\ Guarded(target[r])) =>
                  /\ CountKind(started[r], "dispatch") = 0
                  /\ status[r] # StatusOk
                  /\ (Ended(r) => pc[r] = "failed" /\ status[r] = Unauthorized)

C6_Witness ==
    /\ ~AuthProvider
    /\ \E r \in Requests :
          /\ pc[r] = "failed" /\ status[r] = Unauthorized
          /\ ~HasClassRule /\ HasMethodRule(target[r])
          /\ Last(started[r]).requiredRoles = <<>>

\* C7: in a controller without a class-wide rule, the route of a method
\* without a rule of its own has no gate: a request to it never fails with
\* 401 or 403 and, unless a middleware returns without next(), reaches the
\* dispatcher, for any principal; the route of a method with a rule has its
\* gate, and no unauthenticated request to it reaches the dispatcher.
C7_UnruledMethodOpen ==
    (buildPc = "done" /\ ~HasClassRule) =>
        /\ \A t \in 1..Len(routes) :
              CountKind(routes[t].stack, "auth") = IF HasMethodRule(t) THEN 1 ELSE 0
        /\ \A r \in Requests : (target[r] # 0 /\ ~HasMethodRule(target[r])) =>
              /\ pc[r] # "failed"
              /\ status[r] \notin {Unauthorized, Forbidden}
              /\ CountKind(started[r], "auth") = 0
              /\ (pc[r] = "halted" => Last(started[r]).kind = "mw")
              /\ (pc[r] = "done" => CountKind(started[r], "dispatch") = 1)
              /\ (pc[r] = "run" /\ Len(continued[r]) = Len(ExpectedNames(target[r])) - 1
                    => Cur(r).kind = "dispatch")
        /\ \A r \in Requests :
              (target[r] # 0 /\ HasMethodRule(target[r]) /\ ~Authenticated(r)) =>
                  CountKind(started[r], "dispatch") = 0

C7_Witness ==
    /\ ~HasClassRule
    /\ DOMAIN authorizeMetadata = {"getTest"}
    /\ \E r \in Requests :
          /\ target[r] # 0 /\ KeyOf(target[r]) = "getAll"
          /\ principal[r] # Absent /\ ~principal[r].auth
          /\ pc[r] = "done"
          /\ CountKind(started[r], "dispatch") = 1

\* C8: before build() neither hook has run and nothing is registered; build()
\* runs the config function once, then registers the routes of the
\* controllers, then runs the error-config function once: the middleware of
\* the config function stands before the router, that of the error-config
\* function after it.
BuildOrder == <<"configFn", "registerControllers", "errorConfigFn">>
C8_BuildOrder ==
    /\ IsPrefix(trace, BuildOrder)
    /\ (buildPc = "idle" => trace = <<>> /\ app = <<>> /\ routes = <<>>)
    /\ (trace = <<"configFn">> => routes = <<>> /\ CountKind(app, "router") = 0)
    /\ (buildPc = "done" =>
           /\ trace = BuildOrder
           /\ Len(routes) = Len(methodMetadata)
           /\ Names(app) = <<"principal">>
                             \o (IF configFn = "user" THEN <<"s1">> ELSE <<>>)
                             \o <<"router">>
                             \o (IF errorConfigFn = "user" THEN <<"e1">> ELSE <<>>))

C8_Witness ==
    /\ buildPc = "done"
    /\ trace = BuildOrder
    /\ Names(app) = <<"principal", "s1", "router", "e1">>

\* C9: a request resolves its principal once, in the first handler it runs;
\* no other handler starts before the principal is stored in the state of the
\* request, and once stored it is neither resolved again nor replaced.
C9_ResolvedFirst ==
    \A r \in Requests :
        /\ resolved[r] <= 1
        /\ CountKind(started[r], "principal") = resolved[r]
        /\ (Len(started[r]) >= 1 => started[r][1].kind = "principal")
        /\ (Len(started[r]) >= 2 =>
               /\ continued[r][1].kind = "principal"
               /\ principal[r] \in getCurrentPrincipal(AuthProvider))
C9_Stored ==
    \A r \in Requests : Len(continued[r]) >= 1 =>
        /\ principal'[r] = principal[r]
        /\ resolved'[r] = resolved[r]
\* C9, as one formula: resolved once and first, in every state; stored for
\* good, in every step
C9_PrincipalOnce == []C9_ResolvedFirst /\ [][C9_Stored]_vars

C9_Witness ==
    \E r \in Requests :
        /\ pc[r] = "done"
        /\ resolved[r] = 1
        /\ CountKind(started[r], "auth") = 2
        /\ CountKind(started[r], "mw") = 5

\* C10: on a route with both rules the class-wide rule's gate stands right
\* before the method rule's gate; the gate a request runs first is the
\* class-wide one, and a request that fails it has failed there, with the
\* method rule's gate never started.
FirstGate(t) ==
    Len(controllerMetadata.middleware) + Len(methodMetadata[t].middleware) + 1
C10_ClassGateFirst ==
    \A r \in Requests : DoublyGuarded(r) =>
        LET t == target[r]
            first == FirstGate(t)
            failsClassGate == ~Authenticated(r) \/ ~HasAllRoles(r, ClassRoles)
        IN /\ routes[t].stack[first] = authorizationHandlerFactory(ClassRoles)
           /\ routes[t].stack[first + 1] = authorizationHandlerFactory(MethodRoles(t))
           /\ (CountKind(started[r], "auth") = 2 => ~failsClassGate)
           /\ (pc[r] = "failed" /\ failsClassGate) =>
                 /\ pos[r] = first
                 /\ CountKind(started[r], "auth") = 1
                 /\ Last(started[r]).requiredRoles = ClassRoles

C10_Witness ==
    \E r \in Requests :
        /\ DoublyGuarded(r) /\ Authenticated(r)
        /\ ClassRoles = <<"role a">>
        /\ MethodRoles(target[r]) = <<"role b">>
        /\ principal[r].roles = {}
        /\ pc[r] = "failed" /\ status[r] = Forbidden
        /\ pos[r] = FirstGate(target[r])
        /\ CountKind(started[r], "auth") = 1

\* the provider resolved to nothing and the gate found no principal
MissingPrincipalAtGate ==
    \E r \in Requests :
        /\ AuthProvider /\ principal[r] = Absent
        /\ GateActed(r) /\ status[r] = Unauthorized

\* ------------------------------------------------ claims on registration
\* registerControllers has run
Registered == buildPc \in {"errorConfig", "done"}
\* the routes whose dispatcher names the class, in registration order
RoutesOf(name) == SelectSeq(routes, LAMBDA rt : Last(rt.stack).name = name)
\* a class the loop of registerControllers does not skip
HasBothMetadata(c) == c.controllerMetadata # Absent /\ c.methodMetadata # <<>>
RECURSIVE MethodCount(_)
\* the decorated methods of the classes that have both metadata
MethodCount(controllers) ==
    IF controllers = <<>> THEN 0
    ELSE (IF HasBothMetadata(controllers[1])
          THEN Len(controllers[1].methodMetadata) ELSE 0)
         + MethodCount(Tail(controllers))

\* C11: once build has registered the controllers, every class with
\* controller metadata and N decorated methods has exactly N routes, the i-th
\* under the verb of its i-th method metadata entry and the path
\* pathJoin(controller path, method path).
C11_OneRoutePerMethod ==
    Registered =>
        \A k \in 1..Len(Controllers) :
            LET cm == Controllers[k].controllerMetadata
                mm == Controllers[k].methodMetadata
            IN cm # Absent =>
                  LET own == RoutesOf(cm.target)
                  IN /\ Len(own) = Len(mm)
                     /\ \A i \in 1..Len(mm) :
                           /\ own[i].method = mm[i].method
                           /\ own[i].path = pathJoin(<<Str(cm.path), Str(mm[i].path)>>)
                           /\ Last(own[i].stack).key = mm[i].key

C11_Witness ==
    /\ buildPc = "done"
    /\ Len(Controllers) = 2
    /\ \A k \in 1..2 : HasBothMetadata(Controllers[k])
    /\ Len(methodMetadata) = MaxMethods
    /\ methodMetadata[1].method # methodMetadata[2].method
    /\ Len(RoutesOf("TestController")) = MaxMethods
    /\ Len(RoutesOf("OtherController")) = 1

\* C12: a class bound under TYPE.Controller that lacks controller metadata,
\* or has it but no method metadata, has no route: the routes are exactly
\* those of the methods of the other classes; build never stops before its
\* end, and at its end the error-config function is the last thing it ran.
C12_BareControllerNoRoute ==
    /\ Registered =>
          /\ Len(routes) = MethodCount(Controllers)
          /\ \A k \in 1..Len(Controllers) :
                ~HasBothMetadata(Controllers[k]) =>
                    RoutesOf(Controllers[k].name) = <<>>
    /\ buildPc # "done" =>
          ENABLED (buildPrincipal \/ buildConfig \/ buildRegister \/ buildErrorConfig)
    /\ buildPc = "done" => Last(trace) = "errorConfigFn"

C12_Witness ==
    /\ buildPc = "done"
    /\ controllerMetadata = Absent
    /\ methodMetadata # <<>>
    /\ Len(otherControllers) = 1
    /\ otherControllers[1].controllerMetadata # Absent
    /\ otherControllers[1].methodMetadata = <<>>
    /\ routes = <<>>
    /\ Last(trace) = "errorConfigFn"

\* -------------------------------------------- claims on resolveMiddleware
\* C13: the list resolveMiddleware returns is as long as its argument list,
\* and at each position holds: the wrapper around the instance when the ref
\* of that position is bound to a BaseMiddleware instance, the resolved
\* instance itself when the ref is bound to anything else, the ref itself
\* when it is not bound.
C13_ResolvedPositionwise ==
    (returned # Absent /\ returned.fn = "resolveMiddleware") =>
        /\ Len(returned.value) = Len(middleware)
        /\ \A i \in 1..Len(middleware) :
              LET ref == middleware[i]
                  h == returned.value[i]
              IN IF ref \notin DOMAIN container
                 THEN h.kind = "mw" /\ h.name = ref
                 ELSE IF container[ref].instanceOf = "BaseMiddleware"
                 THEN h.kind = "wrapper" /\ h.name = container[ref].name
                 ELSE /\ h.kind # "wrapper"
                      /\ h.kind = (IF container[ref].instanceOf = "Function"
                                   THEN "mw" ELSE "object")
                      /\ h.name = container[ref].name

C13_Witness ==
    /\ returned # Absent
    /\ returned.fn = "resolveMiddleware"
    /\ middleware = <<"TestMiddleware", "m1">>
    /\ DOMAIN container = {"TestMiddleware", "TestService"}
    /\ container["TestMiddleware"].instanceOf = "BaseMiddleware"
    /\ returned.value = <<Handler("wrapper", "testMiddleware", <<>>, None),
                          Handler("mw", "m1", <<>>, None)>>

\* -------------------------------------------- claims on extractParameters
\* extractParameters has been called for getTest
Extracted == returned # Absent /\ returned.fn = "extractParameters"
\* the bindings of types among the bindings of getTest
BindingsOf(types) ==
    {j \in 1..Len(paramListOf("getTest")) : paramListOf("getTest")[j].type \in types}
NameOf(j) == paramListOf("getTest")[j].parameterName
\* the argument extractParameters has put at the index of binding j
ArgOf(j) == returned.value.items[paramListOf("getTest")[j].index]
HighestIndex ==
    CHOOSE i \in {paramListOf("getTest")[j].index : j \in 1..Len(paramListOf("getTest"))} :
        \A j \in 1..Len(paramListOf("getTest")) : paramListOf("getTest")[j].index <= i
\* obj has a property named name
Has(obj, name) == name \in DOMAIN obj.props

\* C14: for a method with no binding list, or an empty one, extractParameters
\* returns exactly the two arguments ctx and next, in that order.
C14_DefaultArguments ==
    (Extracted /\ paramListOf("getTest") = <<>>) =>
        returned.value =
            [length |-> 2,
             items |-> [k \in {0, 1} |-> IF k = 0 THEN callCtx ELSE nextFunc]]

C14_Witness ==
    /\ Extracted
    /\ DOMAIN parameterMetadata = {"getAll"}
    /\ returned.value.length = 2
    /\ returned.value.items[0] = callCtx

\* C15: for a non-empty binding list, the argument of every binding stands at
\* the index of the binding, no other index up to the highest bound one is
\* set, ctx and next stand at the two indices after the highest bound one,
\* and the list has length highest bound index + 3; this also when a binding
\* already binds ctx or next.
C15_IndexedThenAppended ==
    (Extracted /\ paramListOf("getTest") # <<>>) =>
        LET params == paramListOf("getTest")
            args == returned.value
        IN /\ args.length = HighestIndex + 3
           /\ DOMAIN args.items =
                  {params[j].index : j \in 1..Len(params)}
                      \cup {HighestIndex + 1, HighestIndex + 2}
           /\ \A j \in 1..Len(params) :
                  ArgOf(j) = argOf(callCtx, nextFunc, params[j])
           /\ args.items[HighestIndex + 1] = callCtx
           /\ args.items[HighestIndex + 2] = nextFunc

C15_Witness ==
    /\ Extracted
    /\ Len(paramListOf("getTest")) = 1
    /\ paramListOf("getTest")[1].index = 1
    /\ paramListOf("getTest")[1].type = "NEXT"
    /\ returned.value.length = 4
    /\ 0 \notin DOMAIN returned.value.items
    /\ returned.value.items[1] = nextFunc
    /\ returned.value.items[3] = nextFunc

\* C16 as stated: a query binding yields the value of the field of the query
\* map its name names, and undefined when the query map has no such field.
C16_AsStated ==
    Extracted =>
        \A j \in BindingsOf({"QUERY"}) :
            LET query == Get(callCtx, "query")
            IN ArgOf(j) = (IF Has(query, NameOf(j))
                           THEN query.props[NameOf(j)] ELSE Undefined)

\* C17 as stated: a cookie binding yields the cookie of its name, and the
\* whole cookie jar when there is no cookie of that name.
C17_AsStated ==
    Extracted =>
        \A j \in BindingsOf({"COOKIES"}) :
            LET jar == Get(callCtx, "cookies")
            IN ArgOf(j) = (IF NameOf(j) \in DOMAIN jar.store
                           THEN jar.store[NameOf(j)] ELSE jar)

\* C17: a cookie binding yields the property of the cookie jar object that
\* has its name when the jar has a truthy one, and otherwise what get(name)
\* of the jar returns: the cookie of that name, undefined when there is
\* none; it never yields the jar.
C17_CookieOrUndefined ==
    Extracted =>
        \A j \in BindingsOf({"COOKIES"}) :
            LET jar == Get(callCtx, "cookies")
            IN /\ ArgOf(j) # jar
               /\ IF Has(jar, NameOf(j)) /\ Truthy(jar.props[NameOf(j)])
                  THEN ArgOf(j) = jar.props[NameOf(j)]
                  ELSE IF NameOf(j) \in DOMAIN jar.store
                  THEN ArgOf(j) = jar.store[NameOf(j)]
                  ELSE ArgOf(j) = Undefined

C17_Witness ==
    /\ Extracted
    /\ BindingsOf({"COOKIES"}) = {1, 2}
    /\ NameOf(1) = "default"
    /\ NameOf(2) = "id"
    /\ ArgOf(1) = Undefined
    /\ ArgOf(2) = Str("hey")

\* C18 as stated: a body binding yields the field of the parsed body its name
\* names whenever the body has that field, the whole body when it has not;
\* a header binding likewise with the headers map.
C18_AsStated ==
    (Extracted /\ Get(Get(callCtx, "request"), "body") # Undefined) =>
        /\ \A j \in BindingsOf({"BODY"}) :
              LET parsed == Get(Get(callCtx, "request"), "body")
              IN ArgOf(j) = (IF Has(parsed, NameOf(j))
                             THEN parsed.props[NameOf(j)] ELSE parsed)
        /\ \A j \in BindingsOf({"HEADERS"}) :
              LET headers == Get(Get(callCtx, "request"), "headers")
              IN ArgOf(j) = (IF Has(headers, NameOf(j))
                             THEN headers.props[NameOf(j)] ELSE headers)

\* --------------------------------------------- claims on the dispatcher
\* the dispatcher of r takes its step: the method returns
Dispatched(r) == methodResult[r] = NotCalled /\ methodResult'[r] # NotCalled

\* C19 as stated: whatever value that is not a promise the method returns,
\* the dispatcher assigns it to the body when the headers are not sent, and
\* leaves the body as it is when they are.
C19_AsStated ==
    [][\A r \in Requests :
          (Dispatched(r) /\ methodResult'[r] \in Results \ {None, Promise}) =>
              IF headerSent[r] THEN body'[r] = body[r]
              ELSE body'[r] = methodResult'[r]]_vars

\* the handlers of hs that stand before the last detached one of hs
RECURSIVE BeforeDetached(_)
BeforeDetached(hs) ==
    IF hs = <<>> THEN <<>>
    ELSE IF Detached(hs[Len(hs)]) THEN SubSeq(hs, 1, Len(hs) - 1)
    ELSE BeforeDetached(SubSeq(hs, 1, Len(hs) - 1))
InSeq(h, hs) == \E i \in 1..Len(hs) : hs[i] = h

\* C20 as stated: while the promise the method returned is pending, the
\* dispatcher has not completed and no upstream handler that awaits its
\* continuation has resumed.
C20_AsStated ==
    \A r \in Requests :
        methodResult[r] = Promise =>
            /\ pc[r] = "pending"
            /\ cascade[r].resumed = <<>>

\* C20: while the promise the method returned is pending, the dispatcher
\* has not completed, and the only handlers that have resumed are handlers
\* upstream of a middleware that called next() without awaiting it: every
\* handler that awaits its continuation through handlers that all await or
\* return theirs is still suspended.
C20_SuspendedUntilSettled ==
    \A r \in Requests :
        methodResult[r] = Promise =>
            /\ pc[r] = "pending"
            /\ \A i \in 1..Len(cascade[r].resumed) :
                  InSeq(cascade[r].resumed[i], BeforeDetached(continued[r]))

C20_Witness ==
    \E r \in Requests :
        /\ methodResult[r] = Promise
        /\ pc[r] = "pending"
        /\ Names(continued[r]) = <<"principal", "c1", "a", "m1", "m2", "auth">>
        /\ Names(cascade[r].resumed) = <<"c1", "principal">>
        /\ headerSent[r]

\* the handlers of r that are suspended on the promise of the dispatcher:
\* those that await next(), after the innermost detached one
Upstream(r) ==
    Awaiters(SubSeq(continued[r], LastDetached(continued[r]) + 1,
                    Len(continued[r])))

Joined == returned # Absent /\ returned.fn = "pathJoin"
AllStrings == \A i \in 1..Len(pathArgs) : isString(pathArgs[i])

\* C22: pathJoin is associative and idempotent on string segments: joining
\* the join of the first two segments with the third gives what joining the
\* first with the join of the last two gives, and joining the result of a
\* join of two segments, alone, gives that result again.
C22_AssociativeIdempotent ==
    (Joined /\ AllStrings) =>
        /\ Len(pathArgs) = 3 =>
              pathJoin(<<Str(pathJoin(<<pathArgs[1], pathArgs[2]>>)), pathArgs[3]>>)
                = pathJoin(<<pathArgs[1], Str(pathJoin(<<pathArgs[2], pathArgs[3]>>))>>)
        /\ Len(pathArgs) = 2 => pathJoin(<<returned.value>>) = returned.value.str

C22_Witness ==
    /\ Joined
    /\ pathArgs = <<Str(<<"a", "/">>), Str(<<"/", "/">>), Str(<<"/", "a">>)>>
    /\ returned.value = Str(<<"a", "/", "a">>)
    /\ pathJoin(<<pathArgs[1], pathArgs[2]>>) = <<"a">>
    /\ pathJoin(<<pathArgs[2], pathArgs[3]>>) = <<"/", "a">>

\* the reference: the segments with a slash between each two of them
RECURSIVE RefConcat(_)
RefConcat(strs) ==
    IF strs = <<>> THEN <<>>
    ELSE IF Len(strs) = 1 THEN strs[1]
    ELSE RefConcat(SubSeq(strs, 1, Len(strs) - 1)) \o <<"/">> \o strs[Len(strs)]
\* the characters of str at the indices of keep, in order
Pick(str, keep) ==
    [j \in 1..Cardinality(keep) |->
        str[CHOOSE i \in keep : Cardinality({k \in keep : k < i}) = j - 1]]
\* the reference: str without the slashes that follow a slash
RefCollapse(str) ==
    Pick(str, {i \in 1..Len(str) : ~(str[i] = "/" /\ i > 1 /\ str[i - 1] = "/")})
\* the reference: str up to its last character that is not a slash
RefStrip(str) ==
    Pick(str, {i \in 1..Len(str) : \E k \in i..Len(str) : str[k] # "/"})
OnlySlashes(str) == str # <<>> /\ \A i \in 1..Len(str) : str[i] = "/"
Reference(arguments) ==
    LET strs == {i \in 1..Len(arguments) : "str" \in DOMAIN arguments[i]}
        kept == [j \in 1..Cardinality(strs) |->
                    arguments[CHOOSE i \in strs :
                                 Cardinality({k \in strs : k < i}) = j - 1].str]
        str == RefCollapse(RefConcat(kept))
    IN IF OnlySlashes(str) THEN <<"/">> ELSE RefStrip(str)

\* C23: for every argument list pathJoin returns what the reference gives:
\* the arguments that are not strings dropped, the others concatenated
\* with a slash between them, every run of slashes collapsed into one, the
\* trailing slashes stripped unless the string is made of slashes only, and
\* then the single slash; pathJoin('', '') is '/', and pathJoin('/', 'path',
\* 'to', 'resource') is '/path/to/resource'.
C23_EqualsReference ==
    /\ Joined => returned.value = Str(Reference(pathArgs))
    /\ pathJoin(<<Str(<<>>), Str(<<>>)>>) = <<"/">>
    /\ pathJoin(<<Str(<<"/">>), Str(<<"p", "a", "t", "h">>), Str(<<"t", "o">>),
                  Str(<<"r", "e", "s", "o", "u", "r", "c", "e">>)>>)
          = <<"/", "p", "a", "t", "h", "/", "t", "o", "/",
              "r", "e", "s", "o", "u", "r", "c", "e">>

C23_Witness ==
    /\ Joined
    /\ pathArgs = <<Str(<<"/", "/">>), Null, Str(<<"a", "/">>)>>
    /\ returned.value = Str(<<"/", "a">>)

\* the decorated parameters of the method of that name, as bindings, from
\* the first to the last
RECURSIVE Reverse(_)
Reverse(seq) == IF seq = <<>> THEN <<>> ELSE Append(Reverse(Tail(seq)), seq[1])
DeclaredMethod(methodName) ==
    declaration[CHOOSE m \in 1..Len(declaration) :
                   declaration[m].methodName = methodName]
BindingsDeclared(methodName) ==
    LET method == DeclaredMethod(methodName)
        calls == Reverse(ParameterDecorators(method, Len(method.decorators)))
    IN [j \in 1..Len(calls) |->
           [index |-> calls[j].index, parameterName |-> calls[j].parameterName,
            type |-> calls[j].type]]
AllApplied == declaration # <<>> /\ applied = Len(DecoratorCalls(declaration))

\* C24: once the parameter decorators of a class have been applied, method
\* after method and for each from its last parameter to its first, a list
\* is stored under the name of each method with a decorated parameter and
\* under no other name; it holds one binding for each decorated parameter of
\* that method, in ascending order of index (the binding of index 0 first
\* when there is one), and no binding of another method.
C24_ListPerMethod ==
    AllApplied =>
        /\ DOMAIN parameterMetadata =
              {declaration[m].methodName : m \in
                  {k \in 1..Len(declaration) :
                      \E i \in 1..Len(declaration[k].decorators) :
                          declaration[k].decorators[i] # Absent}}
        /\ \A methodName \in DOMAIN parameterMetadata :
              LET list == parameterMetadata[methodName]
              IN /\ list = BindingsDeclared(methodName)
                 /\ \A j \in 1..(Len(list) - 1) : list[j].index < list[j + 1].index
                 /\ \A j \in 1..Len(list) :
                       list[j].index = 0 => j = 1

C24_Witness ==
    /\ AllApplied
    /\ Len(declaration) = 2
    /\ DOMAIN parameterMetadata = {"getTest", "getAll"}
    /\ parameterMetadata["getTest"] =
          <<[index |-> 0, parameterName |-> "id", type |-> "PARAMS"],
            [index |-> 1, parameterName |-> "cat", type |-> "PARAMS"]>>
    /\ parameterMetadata["getAll"] =
          <<[index |-> 1, parameterName |-> "cat", type |-> "QUERY"]>>

\* the dispatcher of the first and of the second method declared
FirstDispatcher == handlerFactory("TestController", methodMetadata[1].key)
SecondDispatcher == handlerFactory("TestController", methodMetadata[2].key)
IndexIn(h, hs) == CHOOSE i \in 1..Len(hs) : hs[i] = h
\* the chain of r goes no further
AtRest(r) == pc[r] \in {"done", "failed", "halted", "rejected", "pending"}
SameVerbAndPath ==
    /\ Len(methodMetadata) = 2
    /\ methodMetadata[1].method = methodMetadata[2].method
    /\ methodMetadata[1].path = methodMetadata[2].path
FirstThenSecond ==
    /\ buildPc = "done" =>
          /\ Len(routes) = 2
          /\ Last(routes[1].stack) = FirstDispatcher
          /\ Last(routes[2].stack) = SecondDispatcher
          /\ routes[1].method = routes[2].method
          /\ routes[1].path = routes[2].path
    /\ \A r \in Requests :
          InSeq(SecondDispatcher, started[r]) =>
              /\ InSeq(FirstDispatcher, started[r])
              /\ IndexIn(FirstDispatcher, started[r])
                    < IndexIn(SecondDispatcher, started[r])
              /\ InSeq(FirstDispatcher, continued[r])

\* C25 as stated: two methods of a controller under one verb and path are
\* both registered, in declaration order; the dispatcher of the first runs
\* first, and that of the second runs if and only if the first method
\* invokes its continuation.
C25_AsStated ==
    SameVerbAndPath =>
        /\ FirstThenSecond
        /\ \A r \in Requests :
              (InSeq(FirstDispatcher, continued[r]) /\ AtRest(r)) =>
                  InSeq(SecondDispatcher, started[r])

\* C25: two methods of a controller under one verb and path are both
\* registered, in declaration order; the dispatcher of the first runs
\* first; that of the second runs only if the first method has invoked its
\* continuation, and then it runs unless a handler of the second route that
\* stands before it, a middleware or a gate, does not invoke its own.
C25_SecondAfterItsHandlers ==
    SameVerbAndPath =>
        /\ FirstThenSecond
        /\ \A r \in Requests :
              (InSeq(FirstDispatcher, continued[r]) /\ AtRest(r)) =>
                  \/ InSeq(SecondDispatcher, started[r])
                  \/ /\ pc[r] \in {"failed", "halted"}
                     /\ Last(started[r]).kind \in {"mw", "auth"}
                     /\ Len(started[r]) > IndexIn(FirstDispatcher, started[r])
                     /\ ~InSeq(Last(started[r]),
                               SubSeq(continued[r],
                                      IndexIn(FirstDispatcher, continued[r]) + 1,
                                      Len(continued[r])))

C25_Witness ==
    \E r \in Requests :
        /\ SameVerbAndPath
        /\ methodMetadata[1].key = "nextAwaited"
        /\ InSeq(FirstDispatcher, continued[r])
        /\ Last(started[r]) = SecondDispatcher
        /\ pc[r] = "done"
        /\ body[r] = "value"
        /\ Names(cascade[r].resumed) = <<"c1", "TestController", "c1", "principal">>

\* C26: a handler that has not invoked its continuation is the last handler
\* of its request to have started: the handlers that have started are, but
\* for the last, the ones that have invoked theirs, and after a middleware
\* has returned without next() or a gate has thrown, the handler that did
\* stays the last. A request a gate has answered 401 or 403 has failed at
\* that gate: no gate after it and no dispatcher has started, and the
\* controller method has not been called.
C26_HaltEndsChain ==
    \A r \in Requests : target[r] # 0 =>
        /\ \A i \in 1..(Len(started[r]) - 1) : started[r][i] = continued[r][i]
        /\ Len(continued[r]) <= Len(started[r])
        /\ pc[r] \in {"halted", "failed"} =>
              /\ Len(started[r]) = Len(continued[r]) + 1
              /\ Last(started[r]).kind =
                    IF pc[r] = "halted" THEN "mw" ELSE "auth"
        /\ status[r] \in {Unauthorized, Forbidden} =>
              /\ pc[r] = "failed"
              /\ Last(started[r]).kind = "auth"
              /\ CountKind(started[r], "dispatch") = 0
              /\ methodResult[r] = NotCalled
              /\ IsPrefix(Names(started[r]), ExpectedNames(target[r]))
              /\ cascade[r].error = HttpError(status[r])

C26_Witness ==
    \E r \in Requests :
        /\ DoublyGuarded(r)
        /\ pc[r] = "failed" /\ status[r] = Unauthorized
        /\ CountKind(started[r], "auth") = 1
        /\ CountKind(routes[target[r]].stack, "auth") = 2
        /\ cascade[r].unwound = Len(continued[r])
        /\ Len(cascade[r].raised) = Len(continued[r])

RECURSIVE OwnerOf(_, _)
\* the class the t-th route of those registered for controllers is
\* registered from
OwnerOf(t, controllers) ==
    LET c == controllers[1]
        n == IF HasBothMetadata(c) THEN Len(c.methodMetadata) ELSE 0
    IN IF t <= n THEN c.name ELSE OwnerOf(t - n, Tail(controllers))
\* the dispatcher of r has called the controller method
Invoked(r) == methodResult[r] # NotCalled

\* C27: with every controller bound under the name of its class, or under
\* no name, the dispatcher of a route registered from method m of class C
\* looks the controller up under the name of C and calls m on the instance
\* of C it gets, whatever other classes declare a method named m; when the
\* lookup throws, no method is called at all.
C27_OwnControllerInstance ==
    \A r \in Requests : target[r] # 0 =>
        LET owner == OwnerOf(target[r], Controllers)
            dispatcher == Last(routes[target[r]].stack)
        IN /\ dispatcher.name = owner
           /\ Invoked(r) =>
                 /\ receiver[r] = owner
                 /\ Last(started[r]) = dispatcher
           /\ receiver[r] \in {None, owner}
           /\ (pc[r] = "rejected" /\ thrown[r] = Absent) =>
                 /\ ~Invoked(r)
                 /\ getNamed(owner) = None
                 /\ cascade[r].error = LookupError

C27_Witness ==
    \E r \in Requests :
        /\ Len(Controllers) = 2
        /\ named = <<"TestController", "OtherController">>
        /\ Controllers[1].methodMetadata[1].key = Controllers[2].methodMetadata[1].key
        /\ target[r] = 2
        /\ Invoked(r)
        /\ receiver[r] = "OtherController"
        /\ pc[r] = "done"

\* what the gate of requiredRoles does with a request that carries
\* principal p and is served alone
Alone(p, requiredRoles) ==
    IF p = Absent \/ ~isAuthenticated(p) THEN "401"
    ELSE IF \E i \in 1..Len(requiredRoles) : ~isInRole(p, requiredRoles[i]) THEN "403"
    ELSE "next"
\* what the gate has done with r
Outcome(r) ==
    IF pc[r] = "failed" /\ status[r] = Unauthorized THEN "401"
    ELSE IF pc[r] = "failed" /\ status[r] = Forbidden THEN "403"
    ELSE IF Last(continued[r]) = Last(started[r]) THEN "next"
    ELSE "none"

\* C28: with the requests served side by side, a step of one between any
\* two steps of another, what a gate does with a request is what it does
\* with a request served alone that carries the same principal: 401, 403 or
\* the continuation, by the principal of that request and the roles of the
\* gate alone; what the gate has found for one request stays as it is while
\* another request goes through it.
C28_GateOutcomeAsAlone ==
    \A r \in Requests :
        /\ GateActed(r) =>
              Outcome(r) = Alone(principal[r], Last(started[r]).requiredRoles)
        /\ pc[r] = "role" =>
              /\ gate[r].isAuthenticated = isAuthenticated(principal[r])
              /\ gate[r].isAuthorized =
                    \A i \in 1..(gate[r].idx - 1) :
                        isInRole(principal[r], Cur(r).requiredRoles[i])

C28_Witness ==
    /\ pc["r1"] = "role" /\ gate["r1"].idx = 2 /\ ~gate["r1"].isAuthorized
    /\ principal["r1"].roles = {"role b"}
    /\ GateActed("r2") /\ Outcome("r2") = "next"
    /\ principal["r2"].roles = {"role a", "role b"}
    /\ resolved = [r \in Requests |-> 1]

\* C29: the dispatcher assigns the body in one case only: the method has
\* returned a value that is truthy and not a promise while the headers are
\* not sent, and then the body is that value. When the method returns
\* nothing, a falsy value or a promise, or the headers are sent, the step of
\* the dispatcher leaves the body as it was, and so does the settling of the
\* promise the method returned.
C29_AssignsTruthyValueOnly ==
    [][\A r \in Requests :
          /\ Dispatched(r) =>
                IF /\ methodResult'[r] \in Results \ (Falsy \cup {Promise})
                   /\ ~headerSent[r]
                THEN body'[r] = methodResult'[r]
                ELSE body'[r] = body[r]
          /\ methodResult[r] = Promise => body'[r] = body[r]
          /\ body'[r] # body[r] => Dispatched(r)]_vars

C29_Witness ==
    \E r \in Requests :
        /\ methodResult[r] = "value"
        /\ headerSent[r]
        /\ body[r] = None
        /\ status[r] = 404
        /\ pc[r] = "done"
        /\ Detached(continued[r][2])

\* obj has no property named name, or one whose value is falsy
Missing(obj, name) == ~Truthy(Get(obj, name))

\* C30: a route-param binding whose name the route-parameters map does not
\* have, or has with a falsy value, yields the route-parameters map itself,
\* not undefined; a query binding whose name the query map does not have,
\* or has with a falsy value, yields undefined.
C30_ParamsMapNotUndefined ==
    Extracted =>
        /\ \A j \in BindingsOf({"PARAMS"}) :
              Missing(Get(callCtx, "params"), NameOf(j)) =>
                  /\ ArgOf(j) = Get(callCtx, "params")
                  /\ ArgOf(j) # Undefined
        /\ \A j \in BindingsOf({"QUERY"}) :
              Missing(Get(callCtx, "query"), NameOf(j)) => ArgOf(j) = Undefined

C30_Witness ==
    /\ Extracted
    /\ \E j \in BindingsOf({"PARAMS"}) :
          /\ NameOf(j) = "empty"
          /\ Get(Get(callCtx, "params"), "empty") = Str("")
          /\ ArgOf(j) = Obj("params", [id |-> Str("foo"), empty |-> Str("")])
====
